---- MODULE Spec2Model ----
(***************************************************************************)
(* Model of the rate reconciliation core of src/Combov1.py:               *)
(*   RateValidator (_load_static_rate_sheet, determine_rate_scheme,       *)
(*   validate_rate), perform_rate_validation_audit and                    *)
(*   calculate_money_leakage / generate_recommendations.                  *)
(*                                                                         *)
(* Representation.                                                         *)
(*  - A Python str is a sequence of one-character strings, so that        *)
(*    upper(), strip() and substring tests are computed, not assumed.     *)
(*  - A currency amount (Python float) is an integer number of            *)
(*    thousandths of a currency unit; the tolerance 0.01 is 10.           *)
(*  - A Python dict is a sequence of [code, rate] entries with distinct   *)
(*    codes, in insertion order (dicts keep insertion order).             *)
(*  - None is <<>> and a present optional value v is <<v>>.               *)
(***************************************************************************)
EXTENDS Integers, Sequences, FiniteSets, TLC

VARIABLES
    rate_sheet,        \* RateValidator.rate_sheet: scheme name -> ordered dict
    call,              \* the validate_rate invocation last completed, or NoCall
    audit_args,        \* the inputs of the last perform_rate_validation_audit, or NoCall
    audit_df,          \* the audit table (DataFrame rows) produced by an audit workflow
    leakage_analysis,  \* value returned by calculate_money_leakage, or NoReport
    scheme_call,       \* the determine_rate_scheme invocation last completed, or NoCall
    \* extract_bill_items_from_pdf: the document and the locals of its loops
    doc,               \* the pages of the bill, each the list of its text lines
    page_num,          \* index of the page being scanned (1-based here)
    line_i,            \* the loop index i: the line being scanned (1-based here)
    current_category,  \* None or Some(category code)
    current_entity,    \* None or Some(header label)
    category_items,    \* items buffered for the current category
    bill_items,        \* the output list
    pc,                \* "idle", "scan" (inside the while loop), "break", "done"
    \* the amount step of extract_bill_items_from_pdf on one joined text
    complete_text,     \* the joined text of one candidate item
    bill_item,         \* the outcome of the amount step on it, or NoCall
    conc,              \* extract_concession_details: pages, loop index, results
    ai,                \* a retry loop against the AI service: attempts and outcome
    run                \* run_document_analysis_audit: chunks, progress, all_audits

rate_vars == <<rate_sheet, call, audit_args, audit_df, leakage_analysis>>
parse_vars == <<doc, page_num, line_i, current_category, current_entity,
                category_items, bill_items, pc>>
amount_vars == <<complete_text, bill_item>>
flow_vars == <<conc, ai, run>>

vars == <<rate_vars, scheme_call, parse_vars, amount_vars, flow_vars>>

\* ------------------------------------------------------------------------
\* Bounds of the model
\* ------------------------------------------------------------------------
MaxRows == 2          \* rows of the rate card file
MaxItems == 2         \* line items of one audited bill
MaxAuditRows == 3     \* rows of an audit table given to the aggregator

\* ------------------------------------------------------------------------
\* Strings
\* ------------------------------------------------------------------------
None == <<>>
Some(v) == <<v>>

Abs(x) == IF x < 0 THEN -x ELSE x

LowerLetters ==
    <<"a","b","c","d","e","f","g","h","i","j","k","l","m",
      "n","o","p","q","r","s","t","u","v","w","x","y","z">>
UpperLetters ==
    <<"A","B","C","D","E","F","G","H","I","J","K","L","M",
      "N","O","P","Q","R","S","T","U","V","W","X","Y","Z">>

\* str.upper() on one character
UpperChar(c) ==
    IF \E i \in 1..26 : LowerLetters[i] = c
    THEN UpperLetters[CHOOSE i \in 1..26 : LowerLetters[i] = c]
    ELSE c

\* str.upper()
Upper(s) == [i \in 1..Len(s) |-> UpperChar(s[i])]

\* str.strip(): leading and trailing blanks removed
RECURSIVE LStrip(_)
LStrip(s) == IF s # <<>> /\ Head(s) = " " THEN LStrip(Tail(s)) ELSE s
RECURSIVE RStrip(_)
RStrip(s) ==
    IF s # <<>> /\ s[Len(s)] = " " THEN RStrip(SubSeq(s, 1, Len(s) - 1)) ELSE s
Strip(s) == RStrip(LStrip(s))

\* `needle in haystack` on str
Contains(haystack, needle) ==
    \E i \in 1..(Len(haystack) - Len(needle) + 1) :
        SubSeq(haystack, i, i + Len(needle) - 1) = needle

EmptyStr == <<>>
NOT_FOUND == <<"N","O","T","_","F","O","U","N","D">>
S_nan == <<"n","a","n">>
S_None == <<"N","o","n","e">>
S_AB == <<"A","B">>
S_ab == <<"a","b">>
S_Ab == <<"A","b">>
S_ab_sp == <<"a","b"," ">>
S_CG == <<"C","G">>
S_ZZ == <<"Z","Z">>

\* ------------------------------------------------------------------------
\* Ordered dict helpers (Python dict semantics)
\* ------------------------------------------------------------------------
Keys(d) == {d[i].code : i \in 1..Len(d)}

\* d[k] = v: an existing key keeps its position, a new key is appended
DictSet(d, k, v) ==
    IF k \in Keys(d)
    THEN [i \in 1..Len(d) |-> IF d[i].code = k THEN [code |-> k, rate |-> v] ELSE d[i]]
    ELSE Append(d, [code |-> k, rate |-> v])

\* d[k] for a key that is present
DictGet(d, k) == d[CHOOSE i \in 1..Len(d) : d[i].code = k].rate

\* ------------------------------------------------------------------------
\* RateValidator._load_static_rate_sheet
\* ------------------------------------------------------------------------
\* A cell of the rate card is None (empty, NaN) or Some(value).

EmptySheet == [STANDARD |-> <<>>, CGHS |-> <<>>]

\* float(row[col]) if pd.notna(row.get(col)) else 0.0
RateCell(cell) == IF cell = None THEN 0 ELSE cell[1]

\* one scope of one row: included when the code cell is not null and the
\* stripped code is non-empty and neither 'nan' nor 'None'
LoadCell(lookup, codeCell, rateCell) ==
    IF codeCell = None THEN lookup
    ELSE LET code == Strip(codeCell[1])
         IN IF code # EmptyStr /\ code # S_nan /\ code # S_None
            THEN DictSet(lookup, code, RateCell(rateCell))
            ELSE lookup

RECURSIVE LoadRows(_, _)
LoadRows(rows, acc) ==
    IF rows = <<>> THEN acc
    ELSE LET row == Head(rows)
         IN LoadRows(Tail(rows),
                [STANDARD |-> LoadCell(acc.STANDARD, row.service_code, row.rate),
                 CGHS     |-> LoadCell(acc.CGHS, row.cghs_code, row.cghs_rate)])

\* status: "missing" (file absent), "unreadable" (neither Excel nor CSV), "ok"
load_static_rate_sheet(status, rows) ==
    IF status # "ok" THEN EmptySheet ELSE LoadRows(rows, EmptySheet)

\* ------------------------------------------------------------------------
\* RateValidator.validate_rate
\* ------------------------------------------------------------------------
Tolerance == 10        \* 0.01 currency units, in thousandths

\* mutant: an unknown scheme name falls back to the STANDARD table
SheetGetDefaultStandard(sheet, rate_scheme) ==
    IF rate_scheme \in DOMAIN sheet THEN sheet[rate_scheme] ELSE sheet.STANDARD

\* self.rate_sheet.get(rate_scheme, {})
SheetGet(sheet, rate_scheme) ==
    IF rate_scheme \in DOMAIN sheet THEN sheet[rate_scheme] ELSE <<>>

\* the result dict as first built
InitialResult(service_code, base_amount, quantity, billed_amount, rate_scheme) ==
    [service_code       |-> service_code,
     base_amount        |-> base_amount,
     quantity           |-> quantity,
     billed_amount      |-> billed_amount,
     rate_scheme        |-> rate_scheme,
     validation_status  |-> "PENDING",
     matched_status     |-> "NOT_MATCHED",
     approved_rate      |-> None,
     expected_total     |-> None,      \* the key is absent until a rate is found
     match_found        |-> FALSE,
     remarks            |-> <<>>,      \* '' : the sequence of remark segments
     rate_difference    |-> 0,
     unit_price_mismatch |-> FALSE]

\* mutant: the sentinel is not recognised, only the empty code
CodeMissingEmptyOnly(service_code) == service_code = EmptyStr

\* `not service_code or service_code == 'NOT_FOUND'`
CodeMissing(service_code) == service_code = EmptyStr \/ service_code = NOT_FOUND

\* the early return for a missing service code
CodeNotFoundResult(result) ==
    [result EXCEPT !.validation_status = "SERVICE_CODE_NOT_FOUND",
                   !.matched_status = "NOT_MATCHED",
                   !.remarks = <<"CODE_NOT_FOUND_IN_BILL">>]

\* `if abs(base_amount * quantity - billed_amount) > 0.01: result['remarks'] = ...`
NoteBilledMismatch(result) ==
    IF Abs(result.base_amount * result.quantity - result.billed_amount) > Tolerance
    THEN [result EXCEPT !.remarks = <<"BILLED_AMOUNT_MISMATCH">>]
    ELSE result

\* mutant: the case-insensitive scan is done without trying the exact key first
FindKeyIgnoringCaseOnly(lookup, service_code) ==
    LET matching_keys ==
            SelectSeq([i \in 1..Len(lookup) |-> lookup[i].code],
                      LAMBDA k : Upper(k) = Upper(service_code))
    IN IF matching_keys # <<>> THEN Some(matching_keys[1]) ELSE None

\* the key of `lookup` used for service_code: the exact key when present,
\* else the first key (insertion order) equal to it ignoring case, else None
FindKey(lookup, service_code) ==
    IF service_code \in Keys(lookup) THEN Some(service_code)
    ELSE LET matching_keys ==
                 SelectSeq([i \in 1..Len(lookup) |-> lookup[i].code],
                           LAMBDA k : Upper(k) = Upper(service_code))
         IN IF matching_keys # <<>> THEN Some(matching_keys[1]) ELSE None

\* the return for a code that the scheme's table does not hold
NotInSheetResult(result) ==
    [result EXCEPT !.validation_status = "SERVICE_NOT_IN_RATE_SHEET",
                   !.matched_status = "NOT_MATCHED",
                   !.remarks = <<"NOT_IN_RATE_SHEET">>]

\* approved_rate, expected_total, match_found, rate_difference
WithRate(result, actual_code, approved_rate) ==
    [result EXCEPT !.service_code = actual_code,
                   !.approved_rate = Some(approved_rate),
                   !.expected_total = Some(approved_rate * result.quantity),
                   !.match_found = TRUE,
                   !.rate_difference =
                        result.billed_amount - approved_rate * result.quantity]

\* mutant: a unit price exactly 0.01 away already counts as a mismatch
CheckUnitPriceInclusive(result, approved_rate) ==
    IF Abs(result.base_amount - approved_rate) >= Tolerance
    THEN [result EXCEPT !.unit_price_mismatch = TRUE]
    ELSE result

\* `if abs(base_amount - approved_rate) > 0.01: result['unit_price_mismatch'] = True`
CheckUnitPrice(result, approved_rate) ==
    IF Abs(result.base_amount - approved_rate) > Tolerance
    THEN [result EXCEPT !.unit_price_mismatch = TRUE]
    ELSE result

\* mutant: a difference of exactly 0.01 is accepted
WithinToleranceInclusive(billed_amount, expected_total) ==
    Abs(billed_amount - expected_total) <= Tolerance

\* `abs(billed_amount - expected_total) < 0.01`
WithinTolerance(billed_amount, expected_total) ==
    Abs(billed_amount - expected_total) < Tolerance

\* mutant: the compliant branch leaves matched_status at its default
CompliantResultUnmatched(result) ==
    [result EXCEPT !.validation_status = "RATE_COMPLIANT",
                   !.remarks = <<"RATE_MATCHES">>]

\* the branch taken when the billed amount is within tolerance
CompliantResult(result) ==
    [result EXCEPT !.validation_status = "RATE_COMPLIANT",
                   !.matched_status = "MATCHED",
                   !.remarks = <<"RATE_MATCHES">>]

\* the branch taken otherwise; the remark is Overcharge or Undercharge, with
\* the unit price remark appended (`+=`) when the unit price differs
NonCompliantResult(result, expected_total) ==
    LET charge == IF result.billed_amount > expected_total
                  THEN <<"OVERCHARGE">> ELSE <<"UNDERCHARGE">>
    IN [result EXCEPT !.validation_status = "RATE_NON_COMPLIANT",
                      !.matched_status = "NOT_MATCHED",
                      !.remarks = IF result.unit_price_mismatch
                                  THEN Append(charge, "UNIT_PRICE_MISMATCH")
                                  ELSE charge]

validate_rate(sheet, service_code, base_amount, quantity, billed_amount, rate_scheme) ==
    LET result == InitialResult(service_code, base_amount, quantity,
                                billed_amount, rate_scheme)
    IN IF CodeMissing(service_code) THEN CodeNotFoundResult(result)
       ELSE LET noted == NoteBilledMismatch(result)
                lookup == SheetGet(sheet, rate_scheme)
                key == FindKey(lookup, service_code)
            IN IF key = None THEN NotInSheetResult(noted)
               ELSE LET approved_rate == DictGet(lookup, key[1])
                        expected_total == approved_rate * quantity
                        rated == CheckUnitPrice(
                                    WithRate(noted, key[1], approved_rate),
                                    approved_rate)
                    IN IF WithinTolerance(billed_amount, expected_total)
                       THEN CompliantResult(rated)
                       ELSE NonCompliantResult(rated, expected_total)

\* ------------------------------------------------------------------------
\* RateValidator.determine_rate_scheme
\* ------------------------------------------------------------------------
cghs_keywords ==
    << <<"S","O","U","T","H","E","R","N"," ","R","A","I","L","W","A","Y">>,
       <<"R","A","I","L","W","A","Y">>,
       <<"E","C","H","S">>,
       <<"C","G","H","S">>,
       <<"C","E","N","T","R","A","L"," ","G","O","V","E","R","N","M","E","N","T">>,
       <<"D","E","F","E","N","C","E">>,
       <<"G","O","V","E","R","N","M","E","N","T">>,
       <<"R","A","I","L","W","A","Y","S">>,
       <<"E","X","-","S","E","R","V","I","C","E","M","E","N">>,
       <<"E","X","S","E","R","V","I","C","E","M","E","N">> >>

\* mutant: the keywords are searched in the name as written, not upper-cased
determine_rate_scheme_case_sensitive(company_name) ==
    IF company_name = EmptyStr THEN "STANDARD"
    ELSE IF \E n \in 1..Len(cghs_keywords) : Contains(company_name, cghs_keywords[n])
         THEN "CGHS" ELSE "STANDARD"

\* company_name: a str ('' when the header has no company)
determine_rate_scheme(company_name) ==
    IF company_name = EmptyStr THEN "STANDARD"
    ELSE LET company_upper == Upper(company_name)
         IN IF \E i \in 1..Len(cghs_keywords) :
                  Contains(company_upper, cghs_keywords[i])
            THEN "CGHS" ELSE "STANDARD"

\* ------------------------------------------------------------------------
\* perform_rate_validation_audit
\* ------------------------------------------------------------------------
\* dict.get(key, default)
Get(d, key, default) == IF key \in DOMAIN d THEN d[key] ELSE default

\* mutant: an unknown service code is counted as a missing charge
AuditOutcomeMissingCharge(status) ==
    CASE status = "RATE_COMPLIANT" -> "MATCH"
      [] status = "RATE_NON_COMPLIANT" -> "AMOUNT_MISMATCH"
      [] status = "SERVICE_NOT_IN_RATE_SHEET" -> "POTENTIAL_MISSING_CHARGE"
      [] status = "SERVICE_CODE_NOT_FOUND" -> "UNSUPPORTED_BILLING"
      [] OTHER -> "UNSUPPORTED_BILLING"

\* the if/elif chain that sets audit_row['audit_outcome']
AuditOutcome(status) ==
    CASE status = "RATE_COMPLIANT" -> "MATCH"
      [] status = "RATE_NON_COMPLIANT" -> "AMOUNT_MISMATCH"
      [] status = "SERVICE_NOT_IN_RATE_SHEET" -> "UNSUPPORTED_BILLING"
      [] status = "SERVICE_CODE_NOT_FOUND" -> "UNSUPPORTED_BILLING"
      [] OTHER -> "UNSUPPORTED_BILLING"

\* the body of the loop: one audit row for one line item
AuditRow(sheet, item, company, rate_scheme) ==
    LET service_code == Get(item, "service_code", EmptyStr)
        base_amount == Get(item, "base_amount", 0)
        quantity == Get(item, "quantity", 1)
        billed_amount == Get(item, "billed_amount", 0)
        validation == validate_rate(sheet, service_code, base_amount, quantity,
                                    billed_amount, rate_scheme)
    IN [charge_date        |-> Get(item, "charge_date", EmptyStr),
        service_code       |-> service_code,
        quantity           |-> quantity,
        base_amount        |-> base_amount,
        billed_amount      |-> billed_amount,
        approved_rate      |-> validation.approved_rate,
        \* validation.get('expected_total', 0)
        expected_total     |-> IF validation.expected_total = None
                               THEN 0 ELSE validation.expected_total[1],
        rate_difference    |-> validation.rate_difference,
        matched_status     |-> validation.matched_status,
        remarks            |-> validation.remarks,
        validation_status  |-> validation.validation_status,
        category           |-> Get(item, "category", EmptyStr),
        company            |-> company,
        rate_scheme        |-> rate_scheme,
        match_found        |-> validation.match_found,
        unit_price_mismatch |-> validation.unit_price_mismatch,
        audit_outcome      |-> AuditOutcome(validation.validation_status)]

\* mutant: the company is read under a key the header never has
perform_rate_validation_audit_no_company(sheet, line_items, header_info) ==
    LET company == Get(header_info, "company_name", EmptyStr)
        rate_scheme == determine_rate_scheme(company)
    IN [i \in 1..Len(line_items) |-> AuditRow(sheet, line_items[i], company, rate_scheme)]

\* the rows of the returned DataFrame, one per line item, in order
perform_rate_validation_audit(sheet, line_items, header_info) ==
    LET company == Get(header_info, "company", EmptyStr)
        rate_scheme == determine_rate_scheme(company)
    IN [i \in 1..Len(line_items) |-> AuditRow(sheet, line_items[i], company, rate_scheme)]

\* ------------------------------------------------------------------------
\* calculate_money_leakage / generate_recommendations
\* ------------------------------------------------------------------------
\* str.lower() on one character
LowerChar(c) ==
    IF \E i \in 1..26 : UpperLetters[i] = c
    THEN LowerLetters[CHOOSE i \in 1..26 : UpperLetters[i] = c]
    ELSE c

IsLetter(c) == \E i \in 1..26 : UpperLetters[i] = c \/ LowerLetters[i] = c

\* category.replace('_', ' ').title()
CategoryTitle(category) ==
    LET t == [i \in 1..Len(category) |-> IF category[i] = "_" THEN " " ELSE category[i]]
    IN [i \in 1..Len(t) |->
            IF i = 1 \/ ~IsLetter(t[i - 1]) THEN UpperChar(t[i]) ELSE LowerChar(t[i])]

\* DataFrame column sum of billed_amount
RECURSIVE SumBilled(_)
SumBilled(rows) ==
    IF rows = <<>> THEN 0 ELSE Head(rows).billed_amount + SumBilled(Tail(rows))

\* audit_df[audit_df['audit_outcome'] == outcome]
RowsWithOutcome(df, outcome) == SelectSeq(df, LAMBDA row : row.audit_outcome = outcome)

\* outcome.lower() for the three outcomes of the loop
OutcomeLower(outcome) ==
    CASE outcome = "UNSUPPORTED_BILLING" -> "unsupported_billing"
      [] outcome = "AMOUNT_MISMATCH" -> "amount_mismatch"
      [] outcome = "POTENTIAL_MISSING_CHARGE" -> "potential_missing_charge"

\* d[k] = v on a dict with string keys
Put(d, k, v) == [x \in (DOMAIN d) \cup {k} |-> IF x = k THEN v ELSE d[x]]

LeakageOutcomes == <<"UNSUPPORTED_BILLING", "AMOUNT_MISMATCH", "POTENTIAL_MISSING_CHARGE">>

\* str.lower()
Lower(s) == [n \in 1..Len(s) |-> LowerChar(s[n])]

\* mutant: the missing-charge amounts are added to the leakage total as well
CountsAsLeakageAll(outcome) == TRUE

\* `if outcome != 'POTENTIAL_MISSING_CHARGE'`
CountsAsLeakage(outcome) == outcome # "POTENTIAL_MISSING_CHARGE"

\* the loop over the three outcomes: acc is <<leakage_by_type, total_leakage_amount>>
RECURSIVE LeakageByOutcome(_, _, _)
LeakageByOutcome(df, outcomes, acc) ==
    IF outcomes = <<>> THEN acc
    ELSE LET outcome == Head(outcomes)
             total_amount == SumBilled(RowsWithOutcome(df, outcome))
         IN LeakageByOutcome(df, Tail(outcomes),
                <<Put(acc[1], OutcomeLower(outcome), total_amount),
                  IF CountsAsLeakage(outcome) THEN acc[2] + total_amount ELSE acc[2]>>)

\* audit_df['category'].unique(): the categories in order of first appearance
RECURSIVE UniqueCategories(_, _)
UniqueCategories(df, acc) ==
    IF df = <<>> THEN acc
    ELSE UniqueCategories(Tail(df),
            IF \E i \in 1..Len(acc) : acc[i] = Head(df).category
            THEN acc ELSE Append(acc, Head(df).category))

\* mutant: the missing-charge rows of a category are counted in its leakage
CategoryLeakageWithMissing(df, category) ==
    SumBilled(SelectSeq(df, LAMBDA row :
        /\ row.category = category
        /\ row.audit_outcome \in {"UNSUPPORTED_BILLING", "AMOUNT_MISMATCH",
                                  "POTENTIAL_MISSING_CHARGE"}))

\* the billed amount of one category under the two leaking outcomes
CategoryLeakage(df, category) ==
    SumBilled(SelectSeq(df, LAMBDA row :
        /\ row.category = category
        /\ row.audit_outcome \in {"UNSUPPORTED_BILLING", "AMOUNT_MISMATCH"}))

\* leakage_by_category: an ordered dict of [category, amount]
RECURSIVE LeakageByCategory(_, _, _)
LeakageByCategory(df, categories, acc) ==
    IF categories = <<>> THEN acc
    ELSE LET category_leakage == CategoryLeakage(df, Head(categories))
         IN LeakageByCategory(df, Tail(categories),
                IF category_leakage > 0
                THEN Append(acc, [category |-> Head(categories),
                                  amount |-> category_leakage])
                ELSE acc)

CategoryThreshold == 10000000     \* `amount > 10000`, in thousandths

\* mutant: a category exactly at the threshold is reported as well
ExceedsThresholdInclusive(amount) == amount >= CategoryThreshold

\* `if amount > 10000`
ExceedsThreshold(amount) == amount > CategoryThreshold

Recommendation(priority, action, category, timeline) ==
    [priority |-> priority, action |-> action, category |-> category,
     timeline |-> timeline]

\* the description of an issue carries the amount; its formatting is not modelled
Issue(type, title, amount) == [type |-> type, title |-> title, amount |-> amount]

\* the two recommendations appended last
BaselineRecommendations ==
    << Recommendation("LOW", <<"Implement automated billing validation checks">>,
                      "Technology", "1 month"),
       Recommendation("MEDIUM", <<"Train staff on proper documentation requirements">>,
                      "Training", "3 weeks") >>

\* the loop over leakage_by_category
RECURSIVE CategoryRecommendations(_)
CategoryRecommendations(by_category) ==
    IF by_category = <<>> THEN <<>>
    ELSE (IF ExceedsThreshold(Head(by_category).amount)
          THEN << Recommendation("MEDIUM",
                     <<"Review ", CategoryTitle(Head(by_category).category),
                       " billing processes">>,
                     "Process Improvement", "2 weeks") >>
          ELSE <<>>)
         \o CategoryRecommendations(Tail(by_category))

generate_recommendations(leakage) ==
    LET unsupported_amount == leakage.leakage_by_type["unsupported_billing"]
        mismatch_amount == leakage.leakage_by_type["amount_mismatch"]
        missing_amount == leakage.leakage_by_type["potential_missing_charges"]
        unsupported == unsupported_amount > 0
        mismatch == mismatch_amount > 0
        missing == missing_amount > 0
        issues ==
            (IF unsupported
             THEN <<Issue("HIGH_RISK", "Unsupported Billing Identified", unsupported_amount)>>
             ELSE <<>>)
            \o (IF mismatch
                THEN <<Issue("MEDIUM_RISK", "Billing Amount Discrepancies", mismatch_amount)>>
                ELSE <<>>)
            \o (IF missing
                THEN <<Issue("REVENUE_OPPORTUNITY", "Potential Revenue Recovery", missing_amount)>>
                ELSE <<>>)
        recs ==
            (IF unsupported
             THEN <<Recommendation("HIGH", <<"Review and validate all unsupported charges">>,
                                   "Compliance", "Immediate")>>
             ELSE <<>>)
            \o (IF mismatch
                THEN <<Recommendation("MEDIUM",
                          <<"Standardize billing rates across departments">>,
                          "Revenue Integrity", "1 week")>>
                ELSE <<>>)
            \o (IF missing
                THEN <<Recommendation("HIGH",
                          <<"Establish real-time charge capture system">>,
                          "Revenue Cycle", "2 weeks")>>
                ELSE <<>>)
            \o CategoryRecommendations(leakage.leakage_by_category)
            \o BaselineRecommendations
    IN [leakage EXCEPT !.recommendations = recs, !.priority_issues = issues]

\* audit_df: a non-empty table with the columns billed_amount, audit_outcome, category
calculate_money_leakage(df) ==
    LET by_outcome ==
            LeakageByOutcome(df, LeakageOutcomes,
                <<[k \in {"unsupported_billing", "amount_mismatch",
                          "potential_missing_charges"} |-> 0], 0>>)
    IN generate_recommendations(
          [status |-> "returned",
           total_billed_amount |-> SumBilled(df),
           total_leakage_amount |-> by_outcome[2],
           leakage_by_category |-> LeakageByCategory(df, UniqueCategories(df, <<>>), <<>>),
           leakage_by_type |-> by_outcome[1],
           recommendations |-> <<>>,
           priority_issues |-> <<>>])

\* ------------------------------------------------------------------------
\* Inputs of the rate validation model
\* ------------------------------------------------------------------------
\* rows of the rate card: the columns Service Code, Rate, CGHS CODE, CGHS RATE
CardRow(service_code, rate, cghs_code, cghs_rate) ==
    [service_code |-> service_code, rate |-> rate,
     cghs_code |-> cghs_code, cghs_rate |-> cghs_rate]
CardRows ==
    { CardRow(Some(S_AB), Some(100000), Some(S_ab), Some(80000)),
      CardRow(Some(S_ab), Some(100500), None, None),
      CardRow(Some(S_AB), Some(100500), None, Some(80000)),
      CardRow(Some(S_ab_sp), None, Some(S_CG), Some(80000)),
      CardRow(Some(S_nan), Some(100000), Some(S_CG), None),
      CardRow(Some(NOT_FOUND), Some(100000), Some(S_None), Some(80000)),
      CardRow(None, Some(100000), Some(S_ab), Some(80000)) }
CardFiles == UNION {[1..n -> CardRows] : n \in 0..MaxRows}

ServiceCodes == {EmptyStr, NOT_FOUND, S_AB, S_ab, S_Ab, S_CG, S_ZZ}
BaseAmounts == {100000, 100010, 100011, 50000}
Quantities == {-1, 0, 1, 2}
BilledAmounts == {0, 100000, 100009, 100010, 100011, 99991, 200000}
SchemeNames == {"STANDARD", "CGHS", "OTHER"}

NoCall == [status |-> "none"]
NoReport == [status |-> "none"]

\* the parts of the program that a workflow does not run stay as constructed
SchemeIdle == scheme_call = NoCall

ParseIdle ==
    /\ doc = <<>>
    /\ page_num = 0
    /\ line_i = 0
    /\ current_category = None
    /\ current_entity = None
    /\ category_items = <<>>
    /\ bill_items = <<>>
    /\ pc = "idle"

AmountIdle == complete_text = <<>> /\ bill_item = NoCall
FlowIdle == conc = NoCall /\ ai = NoCall /\ run = NoCall

RateIdle ==
    /\ rate_sheet = EmptySheet
    /\ call = NoCall
    /\ audit_args = NoCall

\* RateValidator.__init__
InitRate ==
    /\ \E status \in {"missing", "unreadable", "ok"} : \E rows \in CardFiles :
          rate_sheet = load_static_rate_sheet(status, rows)
    /\ call = NoCall
    /\ audit_args = NoCall
    /\ audit_df = <<>>
    /\ leakage_analysis = NoReport
    /\ SchemeIdle /\ ParseIdle /\ AmountIdle /\ FlowIdle

\* one call of validate_rate on the loaded validator; the call returns
ValidateRate ==
    /\ call = NoCall
    /\ \E service_code \in ServiceCodes, base_amount \in BaseAmounts,
          quantity \in Quantities, billed_amount \in BilledAmounts,
          rate_scheme \in SchemeNames :
          call' = [status |-> "returned",
                   args |-> [service_code |-> service_code,
                             base_amount |-> base_amount,
                             quantity |-> quantity,
                             billed_amount |-> billed_amount,
                             rate_scheme |-> rate_scheme],
                   result |-> validate_rate(rate_sheet, service_code, base_amount,
                                            quantity, billed_amount, rate_scheme)]
    /\ UNCHANGED <<rate_sheet, audit_args, audit_df, leakage_analysis>>
    /\ UNCHANGED <<scheme_call, parse_vars, amount_vars, flow_vars>>

\* the caller has consumed the returned dict; the validator is reused
DropResult ==
    /\ call # NoCall
    /\ call' = NoCall
    /\ UNCHANGED <<rate_sheet, audit_args, audit_df, leakage_analysis>>
    /\ UNCHANGED <<scheme_call, parse_vars, amount_vars, flow_vars>>

NextRate == ValidateRate \/ DropResult

SpecRate == InitRate /\ [][NextRate]_vars

\* ------------------------------------------------------------------------
\* The rate validation workflow: run_rate_validation_audit and main()
\* ------------------------------------------------------------------------
C_ABC == <<"A","B","C"," ","C","o","r","p">>
C_SRE == <<"S","o","u","t","h","e","r","n"," ","R","a","i","l","w","a","y"," ","E","m","p","l","o","y","e","e","s">>
C_echs == <<"e","c","h","s">>
Cat_BED == <<"B","E","D","_","C","H","A","R","G","E","S">>
Cat_DRUG == <<"D","R","U","G"," ","C","H","A","R","G","E","S">>
Cat_OT == <<"o","t">>

\* header_info as extracted: the company key may be missing
HeaderInfos == {<<>>, [company |-> C_ABC], [company |-> C_SRE], [company |-> C_echs]}

LineItem(service_code, base_amount, quantity, billed_amount, category) ==
    [service_code |-> service_code, base_amount |-> base_amount,
     quantity |-> quantity, billed_amount |-> billed_amount, category |-> category]

\* line items as extracted: keys may be missing
LineItems ==
    { LineItem(S_AB, 100000, 1, 100000, Cat_BED),
      LineItem(S_ab, 100011, 1, 100011, Cat_DRUG),
      LineItem(S_ZZ, 50000, 1, 50000, Cat_DRUG),
      LineItem(NOT_FOUND, 50000, 2, 100000, Cat_BED),
      LineItem(S_CG, 80000, 0, 0, Cat_OT),
      [service_code |-> S_AB, base_amount |-> 100000, billed_amount |-> 100000],
      <<>> }

Bills == UNION {[1..n -> LineItems] : n \in 1..MaxItems}

\* run_rate_validation_audit: the validator is built, the extracted items
\* (not empty) are audited
PerformAudit ==
    /\ audit_args = NoCall
    /\ \E line_items \in Bills, header_info \in HeaderInfos :
          /\ audit_args' = [status |-> "returned",
                            line_items |-> line_items, header_info |-> header_info]
          /\ audit_df' = perform_rate_validation_audit(rate_sheet, line_items, header_info)
    /\ UNCHANGED <<rate_sheet, call, leakage_analysis>>
    /\ UNCHANGED <<scheme_call, parse_vars, amount_vars, flow_vars>>

\* main(): `if not audit_df.empty: calculate_money_leakage(audit_df)`
CalculateMoneyLeakage ==
    /\ audit_df # <<>>
    /\ leakage_analysis = NoReport
    /\ leakage_analysis' = calculate_money_leakage(audit_df)
    /\ UNCHANGED <<rate_sheet, call, audit_args, audit_df>>
    /\ UNCHANGED <<scheme_call, parse_vars, amount_vars, flow_vars>>

NextAudit == PerformAudit \/ CalculateMoneyLeakage

SpecAudit == InitRate /\ [][NextAudit]_vars

\* ------------------------------------------------------------------------
\* The document analysis workflow hands its audits to the same aggregator;
\* there the outcomes come from the audit service and include
\* POTENTIAL_MISSING_CHARGE.
\* ------------------------------------------------------------------------
Audit(audit_outcome, category, billed_amount) ==
    [audit_outcome |-> audit_outcome, category |-> category,
     billed_amount |-> billed_amount]

Audits ==
    { Audit("UNSUPPORTED_BILLING", Cat_BED, 500000),
      Audit("UNSUPPORTED_BILLING", Cat_DRUG, 10000000),
      Audit("UNSUPPORTED_BILLING", Cat_OT, 0),
      Audit("AMOUNT_MISMATCH", Cat_BED, 300000),
      Audit("AMOUNT_MISMATCH", Cat_DRUG, 1),
      Audit("AMOUNT_MISMATCH", Cat_BED, 10000000),
      Audit("POTENTIAL_MISSING_CHARGE", Cat_BED, 200000),
      Audit("POTENTIAL_MISSING_CHARGE", Cat_OT, 200000),
      Audit("MATCH", Cat_BED, 100000),
      Audit("MATCH", Cat_OT, 100000),
      Audit("MATCH", Cat_DRUG, 20000000) }

AuditTables == UNION {[1..n -> Audits] : n \in 1..MaxAuditRows}

InitLeak ==
    /\ RateIdle
    /\ audit_df \in AuditTables
    /\ leakage_analysis = NoReport
    /\ SchemeIdle /\ ParseIdle /\ AmountIdle /\ FlowIdle

NextLeak == CalculateMoneyLeakage

SpecLeak == InitLeak /\ [][NextLeak]_vars

\* ------------------------------------------------------------------------
\* Properties of validate_rate (checked under SpecRate)
\* ------------------------------------------------------------------------
Returned == call # NoCall

\* the table of the scheme named in the call; no table for an unknown name
CallLookup ==
    CASE call.args.rate_scheme = "STANDARD" -> rate_sheet.STANDARD
      [] call.args.rate_scheme = "CGHS" -> rate_sheet.CGHS
      [] OTHER -> <<>>

\* the keys of the consulted table equal to the call's code ignoring case
CallMatches ==
    {i \in 1..Len(CallLookup) : Upper(CallLookup[i].code) = Upper(call.args.service_code)}

\* C1: on every return path of validate_rate, matched_status is MATCHED
\* if and only if validation_status is RATE_COMPLIANT.
C1_MatchedIffCompliant ==
    Returned =>
        (call.result.matched_status = "MATCHED"
            <=> call.result.validation_status = "RATE_COMPLIANT")

C1_Witness ==
    /\ Returned
    /\ call.result.validation_status = "RATE_COMPLIANT"
    /\ call.result.matched_status = "MATCHED"

\* C2: a call of validate_rate with a zero or negative quantity is rejected
\* with an error and never returns a result.
C2_NonPositiveQuantityRejected ==
    (Returned /\ call.args.quantity <= 0) => call.status = "raised"

C4_InconsistencyNoteKept ==
    (/\ Returned
     /\ Abs(call.args.base_amount * call.args.quantity - call.args.billed_amount) > 10)
        => /\ call.result.remarks # <<>>
           /\ call.result.remarks[1] = "BILLED_AMOUNT_MISMATCH"

\* C5: an empty code or the sentinel NOT_FOUND gives SERVICE_CODE_NOT_FOUND
\* and NOT_MATCHED without a rate lookup: approved_rate stays None and
\* match_found false, even when the table holds a key equal to the code.
C5_MissingCodeSkipsLookup ==
    (Returned /\ call.args.service_code \in {EmptyStr, NOT_FOUND}) =>
        /\ call.result.validation_status = "SERVICE_CODE_NOT_FOUND"
        /\ call.result.matched_status = "NOT_MATCHED"
        /\ call.result.approved_rate = None
        /\ call.result.match_found = FALSE

\* the sentinel passed while the scheme's table has the sentinel as a key
C5_Witness ==
    /\ Returned
    /\ call.args.service_code = NOT_FOUND
    /\ NOT_FOUND \in Keys(CallLookup)
    /\ call.result.validation_status = "SERVICE_CODE_NOT_FOUND"

\* C6 as stated: every non-empty code that matches no key of the scheme's
\* table (exactly or ignoring case) is reported SERVICE_NOT_IN_RATE_SHEET,
\* NOT_MATCHED, with approved_rate None.
C6_UnknownCodeNotInSheet ==
    (Returned /\ call.args.service_code # EmptyStr /\ CallMatches = {}) =>
        /\ call.status = "returned"
        /\ call.result.validation_status = "SERVICE_NOT_IN_RATE_SHEET"
        /\ call.result.matched_status = "NOT_MATCHED"
        /\ call.result.approved_rate = None

\* C6 amended: the same for every non-empty code other than the sentinel
\* NOT_FOUND, also on an empty table and for an unknown scheme name.
C6_UnknownCodeNotInSheetAmended ==
    (/\ Returned
     /\ ~(call.args.service_code \in {EmptyStr, NOT_FOUND})
     /\ CallMatches = {}) =>
        /\ call.status = "returned"
        /\ call.result.validation_status = "SERVICE_NOT_IN_RATE_SHEET"
        /\ call.result.matched_status = "NOT_MATCHED"
        /\ call.result.approved_rate = None

\* a code that STANDARD holds, looked up under a scheme name that does not exist
C6_Witness ==
    /\ Returned
    /\ call.args.service_code \in Keys(rate_sheet.STANDARD)
    /\ ~(call.args.rate_scheme \in DOMAIN rate_sheet)
    /\ call.result.validation_status = "SERVICE_NOT_IN_RATE_SHEET"

C8_UnitPriceMismatch ==
    Returned =>
        IF call.result.approved_rate # None
        THEN LET d == call.args.base_amount - call.result.approved_rate[1]
             IN call.result.unit_price_mismatch <=> (d > 10 \/ d < -10)
        ELSE call.result.unit_price_mismatch = FALSE

\* a compliant result whose unit price differs from the approved rate
C8_Witness ==
    /\ Returned
    /\ call.result.validation_status = "RATE_COMPLIANT"
    /\ call.result.unit_price_mismatch = TRUE

\* ------------------------------------------------------------------------
\* Properties of perform_rate_validation_audit (checked under SpecAudit)
\* ------------------------------------------------------------------------
\* the outcome that the rate validation workflow assigns to a status
ExpectedOutcome ==
    [RATE_COMPLIANT |-> "MATCH",
     RATE_NON_COMPLIANT |-> "AMOUNT_MISMATCH",
     SERVICE_NOT_IN_RATE_SHEET |-> "UNSUPPORTED_BILLING",
     SERVICE_CODE_NOT_FOUND |-> "UNSUPPORTED_BILLING"]

\* C9: in every row of perform_rate_validation_audit, audit_outcome is
\* decided by validation_status alone (RATE_COMPLIANT: MATCH,
\* RATE_NON_COMPLIANT: AMOUNT_MISMATCH, both not-found statuses:
\* UNSUPPORTED_BILLING) and is never POTENTIAL_MISSING_CHARGE.
C9_OutcomeFromStatus ==
    audit_args # NoCall =>
        \A i \in 1..Len(audit_df) :
            /\ audit_df[i].validation_status \in DOMAIN ExpectedOutcome
            /\ audit_df[i].audit_outcome = ExpectedOutcome[audit_df[i].validation_status]
            /\ audit_df[i].audit_outcome # "POTENTIAL_MISSING_CHARGE"

\* one bill whose rows carry a code absent from the rate sheet and a
\* rate-compliant code
C9_Witness ==
    /\ audit_args # NoCall
    /\ \E i \in 1..Len(audit_df) :
          /\ audit_df[i].validation_status = "SERVICE_NOT_IN_RATE_SHEET"
          /\ audit_df[i].audit_outcome = "UNSUPPORTED_BILLING"
    /\ \E i \in 1..Len(audit_df) :
          /\ audit_df[i].validation_status = "RATE_COMPLIANT"
          /\ audit_df[i].audit_outcome = "MATCH"

\* ------------------------------------------------------------------------
\* Properties of calculate_money_leakage (checked under SpecLeak)
\* ------------------------------------------------------------------------
Reported == leakage_analysis # NoReport

\* the billed amounts of the rows whose outcome is in the set, added up
RECURSIVE AmountOf(_, _)
AmountOf(rows, outcomes) ==
    IF rows = {} THEN 0
    ELSE LET i == CHOOSE j \in rows : TRUE
         IN (IF audit_df[i].audit_outcome \in outcomes
             THEN audit_df[i].billed_amount ELSE 0)
            + AmountOf(rows \ {i}, outcomes)

\* C10: total_leakage_amount is the sum of billed_amount over the items with
\* outcome UNSUPPORTED_BILLING or AMOUNT_MISMATCH; POTENTIAL_MISSING_CHARGE
\* and MATCH amounts never contribute.
C10_LeakageTotal ==
    Reported =>
        leakage_analysis.total_leakage_amount
            = AmountOf(DOMAIN audit_df, {"UNSUPPORTED_BILLING", "AMOUNT_MISMATCH"})

\* 500 unsupported + 300 mismatch + 200 missing gives 800
C10_Witness ==
    /\ Reported
    /\ Len(audit_df) = 3
    /\ \E i, j, k \in 1..3 :
          /\ audit_df[i].audit_outcome = "UNSUPPORTED_BILLING"
          /\ audit_df[i].billed_amount = 500000
          /\ audit_df[j].audit_outcome = "AMOUNT_MISMATCH"
          /\ audit_df[j].billed_amount = 300000
          /\ audit_df[k].audit_outcome = "POTENTIAL_MISSING_CHARGE"
          /\ audit_df[k].billed_amount = 200000
    /\ leakage_analysis.total_leakage_amount = 800000

\* the categories of the audit table
TableCategories == {audit_df[i].category : i \in DOMAIN audit_df}

\* the billed amounts of the rows of a category whose outcome is in the set
RECURSIVE CategoryAmount(_, _, _)
CategoryAmount(rows, category, outcomes) ==
    IF rows = {} THEN 0
    ELSE LET i == CHOOSE j \in rows : TRUE
         IN (IF audit_df[i].category = category /\ audit_df[i].audit_outcome \in outcomes
             THEN audit_df[i].billed_amount ELSE 0)
            + CategoryAmount(rows \ {i}, category, outcomes)

LeakingAmount(category) ==
    CategoryAmount(DOMAIN audit_df, category, {"UNSUPPORTED_BILLING", "AMOUNT_MISMATCH"})

\* C11: the breakdown by outcome type has exactly three buckets, and the
\* missing-charge bucket read by the report and by the recommendation rules
\* holds the billed amount of the POTENTIAL_MISSING_CHARGE items, so that a
\* non-zero amount yields the revenue-recovery issue and recommendation.
C11_MissingChargeBucket ==
    Reported =>
        LET missing == AmountOf(DOMAIN audit_df, {"POTENTIAL_MISSING_CHARGE"})
        IN /\ Cardinality(DOMAIN leakage_analysis.leakage_by_type) = 3
           /\ leakage_analysis.leakage_by_type["potential_missing_charges"] = missing
           /\ missing > 0 =>
                /\ \E n \in DOMAIN leakage_analysis.priority_issues :
                      leakage_analysis.priority_issues[n].type = "REVENUE_OPPORTUNITY"
                /\ \E n \in DOMAIN leakage_analysis.recommendations :
                      leakage_analysis.recommendations[n].category = "Revenue Cycle"

\* C12: leakage_by_category maps each category to the billed amount of its
\* UNSUPPORTED_BILLING and AMOUNT_MISMATCH items and has no entry for a
\* category whose amount is zero.
C12_LeakageByCategory ==
    Reported =>
        LET by_category == leakage_analysis.leakage_by_category
        IN /\ \A n \in DOMAIN by_category :
                /\ by_category[n].category \in TableCategories
                /\ by_category[n].amount = LeakingAmount(by_category[n].category)
                /\ by_category[n].amount # 0
                /\ \A m \in DOMAIN by_category :
                      by_category[m].category = by_category[n].category => m = n
           /\ \A c \in TableCategories :
                LeakingAmount(c) # 0 =>
                    \E n \in DOMAIN by_category : by_category[n].category = c

\* a table with a leaking category and a category whose items are all MATCH
\* or POTENTIAL_MISSING_CHARGE, which gets no entry
C12_Witness ==
    /\ Reported
    /\ \E c \in TableCategories :
          /\ LeakingAmount(c) = 0
          /\ CategoryAmount(DOMAIN audit_df, c, {"MATCH", "POTENTIAL_MISSING_CHARGE"}) > 0
          /\ \A n \in DOMAIN leakage_analysis.leakage_by_category :
                leakage_analysis.leakage_by_category[n].category # c
    /\ leakage_analysis.leakage_by_category # <<>>

\* the categories whose leakage is above 10000
OverThreshold == {c \in TableCategories : LeakingAmount(c) > 10000000}

\* C13: the recommendations end with the two baseline recommendations, in
\* the same order, preceded by exactly one process-review recommendation for
\* each category whose leakage exceeds 10000 and none for any other category.
C13_RecommendationTail ==
    Reported =>
        LET recs == leakage_analysis.recommendations
            n == Len(recs)
            k == Cardinality(OverThreshold)
            reviews == {m \in DOMAIN recs : recs[m].category = "Process Improvement"}
        IN /\ n >= 2 + k
           /\ recs[n - 1].category = "Technology" /\ recs[n - 1].priority = "LOW"
           /\ recs[n - 1].action = <<"Implement automated billing validation checks">>
           /\ recs[n].category = "Training" /\ recs[n].priority = "MEDIUM"
           /\ recs[n].action = <<"Train staff on proper documentation requirements">>
           /\ reviews = (n - 1 - k)..(n - 2)
           /\ \A c \in OverThreshold :
                 Cardinality({m \in reviews : recs[m].action[2] = CategoryTitle(c)}) = 1

\* one category above the threshold and one exactly at it
C13_Witness ==
    /\ Reported
    /\ Cardinality(OverThreshold) = 1
    /\ \E c \in TableCategories : LeakingAmount(c) = 10000000
    /\ Len(leakage_analysis.recommendations) >= 3

\* ------------------------------------------------------------------------
\* Scheme selection on its own: determine_rate_scheme over company names
\* ------------------------------------------------------------------------
CompanyCores ==
    { <<"S","O","U","T","H","E","R","N"," ","R","A","I","L","W","A","Y">>,
      <<"R","A","I","L","W","A","Y">>,
      <<"E","C","H","S">>,
      <<"C","G","H","S">>,
      <<"C","E","N","T","R","A","L"," ","G","O","V","E","R","N","M","E","N","T">>,
      <<"D","E","F","E","N","C","E">>,
      <<"G","O","V","E","R","N","M","E","N","T">>,
      <<"R","A","I","L","W","A","Y","S">>,
      <<"E","X","-","S","E","R","V","I","C","E","M","E","N">>,
      <<"E","X","S","E","R","V","I","C","E","M","E","N">>,
      <<"R","a","i","l","w","a","y">>,
      <<"S","o","u","t","h","e","r","n"," ","R","a","i","l","w","a","y">>,
      <<"E","c","h","s">>,
      <<"C","e","n","t","r","a","l"," ","G","o","v","e","r","n","m","e","n","t">>,
      <<"E","x","-","S","e","r","v","i","c","e","m","e","n">>,
      <<"R","A","I","L","W","A">>,
      <<"E","C","H">>,
      <<"C","G","H"," ","S">>,
      <<"C","E","N","T","R","A","L"," ","G","O","V","T">>,
      <<"D","E","F","E","N","S","E">>,
      <<"G","O","V","E","R","M","E","N","T">>,
      <<"E","X"," ","S","E","R","V","I","C","E","M","E","N">>,
      <<"A","B","C"," ","C","o","r","p">>,
      <<"R","A","I","L"," ","W","A","Y">>,
      <<>> }
CompanyPrefixes == {EmptyStr, <<"T","h","e"," ">>, <<"x">>}
CompanySuffixes == {EmptyStr, <<" ","E","m","p","l","o","y","e","e","s">>, <<"y">>}
CompanyNames ==
    LET written == {pre \o core \o suf : pre \in CompanyPrefixes,
                    core \in CompanyCores, suf \in CompanySuffixes}
    IN written \cup {Lower(c) : c \in written}

InitScheme ==
    /\ RateIdle
    /\ audit_df = <<>>
    /\ leakage_analysis = NoReport
    /\ SchemeIdle /\ ParseIdle /\ AmountIdle /\ FlowIdle

\* one call of determine_rate_scheme; the call returns
DetermineRateScheme ==
    /\ scheme_call = NoCall
    /\ \E company_name \in CompanyNames :
          scheme_call' = [status |-> "returned",
                          company_name |-> company_name,
                          result |-> determine_rate_scheme(company_name)]
    /\ UNCHANGED <<rate_vars, parse_vars, amount_vars, flow_vars>>

NextScheme == DetermineRateScheme

SpecScheme == InitScheme /\ [][NextScheme]_vars

\* the keywords of the scheme-selection rule, as a set
SchemeKeywords ==
    { <<"R","A","I","L","W","A","Y">>,
      <<"E","C","H","S">>,
      <<"C","G","H","S">>,
      <<"C","E","N","T","R","A","L"," ","G","O","V","E","R","N","M","E","N","T">>,
      <<"D","E","F","E","N","C","E">>,
      <<"G","O","V","E","R","N","M","E","N","T">>,
      <<"R","A","I","L","W","A","Y","S">>,
      <<"E","X","-","S","E","R","V","I","C","E","M","E","N">>,
      <<"E","X","S","E","R","V","I","C","E","M","E","N">> }

\* C14: determine_rate_scheme returns CGHS exactly when the company name
\* contains, ignoring case, one of the keywords RAILWAY, ECHS, CGHS, CENTRAL
\* GOVERNMENT, DEFENCE, GOVERNMENT, RAILWAYS, EX-SERVICEMEN, EXSERVICEMEN, and
\* STANDARD otherwise, also for an empty name; the keywords count as a set.
C14_SchemeByKeyword ==
    scheme_call # NoCall =>
        LET hit == \E k \in SchemeKeywords :
                      Contains(Lower(scheme_call.company_name), Lower(k))
        IN scheme_call.result = IF hit THEN "CGHS" ELSE "STANDARD"

\* "Southern Railway Employees" selects CGHS
C14_Witness ==
    /\ scheme_call # NoCall
    /\ scheme_call.company_name = C_SRE
    /\ scheme_call.result = "CGHS"

\* the scheme the header's company selects, for the companies of HeaderInfos
HeaderScheme(header_info) ==
    IF "company" \in DOMAIN header_info /\ header_info.company \in {C_SRE, C_echs}
    THEN "CGHS" ELSE "STANDARD"

\* C15: perform_rate_validation_audit returns one row per line item, in input
\* order; every row of a document carries, and was validated against, the
\* scheme selected from the header's company; a missing quantity counts as 1.
C15_OneRowPerItemOneScheme ==
    audit_args # NoCall =>
        LET line_items == audit_args.line_items
            scheme == HeaderScheme(audit_args.header_info)
        IN /\ Len(audit_df) = Len(line_items)
           /\ \A n \in 1..Len(line_items) :
                LET item == line_items[n]
                    row == audit_df[n]
                    quantity == IF "quantity" \in DOMAIN item THEN item.quantity ELSE 1
                    validation == validate_rate(rate_sheet, row.service_code,
                                                row.base_amount, quantity,
                                                row.billed_amount, scheme)
                IN /\ row.service_code = Get(item, "service_code", EmptyStr)
                   /\ row.base_amount = Get(item, "base_amount", 0)
                   /\ row.billed_amount = Get(item, "billed_amount", 0)
                   /\ row.category = Get(item, "category", EmptyStr)
                   /\ row.quantity = quantity
                   /\ row.rate_scheme = scheme
                   /\ row.validation_status = validation.validation_status
                   /\ row.approved_rate = validation.approved_rate

\* two items of a railway company's bill, the second without a quantity
C15_Witness ==
    /\ audit_args # NoCall
    /\ audit_args.header_info = [company |-> C_SRE]
    /\ Len(audit_args.line_items) = 2
    /\ "quantity" \notin DOMAIN audit_args.line_items[2]
    /\ audit_args.line_items[2] # <<>>
    /\ audit_args.line_items[1] # audit_args.line_items[2]
    /\ Len(audit_df) = 2
    /\ audit_df[2].quantity = 1
    /\ audit_df[1].rate_scheme = "CGHS" /\ audit_df[2].rate_scheme = "CGHS"

\* ------------------------------------------------------------------------
\* extract_bill_items_from_pdf: one assembled item (lines 203-238)
\* ------------------------------------------------------------------------
DigitChars == <<"0","1","2","3","4","5","6","7","8","9">>
IsDigit(c) == \E d \in 1..10 : DigitChars[d] = c
DigitValue(c) == (CHOOSE d \in 1..10 : DigitChars[d] = c) - 1

\* the character class [\d,]
IsAmountChar(c) == IsDigit(c) \/ c = ","

\* re.match of [\d,]+\.\d{2} at position p: the index of the last character of
\* the match, 0 when there is none.  The run of [\d,] is taken greedily; a
\* shorter run cannot be followed by '.', so only the longest run is tried.
MatchEnd(text, p) ==
    IF ~IsAmountChar(text[p]) THEN 0
    ELSE LET q == CHOOSE q \in p..Len(text) :
                     /\ \A k \in p..q : IsAmountChar(text[k])
                     /\ q = Len(text) \/ ~IsAmountChar(text[q + 1])
         IN IF /\ q + 3 <= Len(text)
               /\ text[q + 1] = "."
               /\ IsDigit(text[q + 2])
               /\ IsDigit(text[q + 3])
            THEN q + 3 ELSE 0

\* re.findall(amount_pattern, text) from position p on: the matched strings,
\* left to right, not overlapping
RECURSIVE FindAllFrom(_, _)
FindAllFrom(text, p) ==
    IF p > Len(text) THEN <<>>
    ELSE LET e == MatchEnd(text, p)
         IN IF e = 0 THEN FindAllFrom(text, p + 1)
            ELSE <<SubSeq(text, p, e)>> \o FindAllFrom(text, e + 1)

FindAll(text) == FindAllFrom(text, 1)

\* str.replace(',', '')
RemoveCommas(s) == SelectSeq(s, LAMBDA c : c # ",")

\* the value of a run of decimal digits ('' counts 0)
RECURSIVE DigitsValue(_)
DigitsValue(s) ==
    IF s = <<>> THEN 0
    ELSE 10 * DigitsValue(SubSeq(s, 1, Len(s) - 1)) + DigitValue(s[Len(s)])

\* float(amount_str) for digits '.' two digits, in thousandths
ToFloat(amount_str) ==
    LET n == Len(amount_str)
    IN 1000 * DigitsValue(SubSeq(amount_str, 1, n - 3))
         + 100 * DigitValue(amount_str[n - 1]) + 10 * DigitValue(amount_str[n])

\* the positions where sep occurs in text
Occurrences(text, sep) ==
    {k \in 1..(Len(text) - Len(sep) + 1) : SubSeq(text, k, k + Len(sep) - 1) = sep}

\* mutant: the text is cut at the first occurrence of sep
SplitHead(text, sep) ==
    IF Occurrences(text, sep) = {} THEN text
    ELSE LET k == CHOOSE k \in Occurrences(text, sep) :
                     \A m \in Occurrences(text, sep) : k <= m
         IN SubSeq(text, 1, k - 1)

\* text.rsplit(sep, 1)[0]: the text before the last occurrence of sep
RSplitHead(text, sep) ==
    IF Occurrences(text, sep) = {} THEN text
    ELSE LET k == CHOOSE k \in Occurrences(text, sep) :
                     \A m \in Occurrences(text, sep) : m <= k
         IN SubSeq(text, 1, k - 1)

\* mutant: the last amount is cut off even when it is the only one
BilledTextAlwaysCut(complete_text_, amount_matches) ==
    Strip(RSplitHead(complete_text_, amount_matches[Len(amount_matches)]))

\* lines 223-227
BilledText(complete_text_, amount_matches) ==
    IF Len(amount_matches) > 1
    THEN Strip(RSplitHead(complete_text_, amount_matches[2]))
    ELSE complete_text_

\* ' '.join(item_parts)
RECURSIVE Join(_)
Join(item_parts) ==
    IF item_parts = <<>> THEN <<>>
    ELSE IF Len(item_parts) = 1 THEN item_parts[1]
    ELSE item_parts[1] \o <<" ">> \o Join(Tail(item_parts))

\* date_part.split()[0] if ' ' in date_part else date_part
ChargeDate(date_part) ==
    IF \E k \in 1..Len(date_part) : date_part[k] = " "
    THEN SubSeq(date_part, 1,
                (CHOOSE k \in 1..Len(date_part) :
                    /\ date_part[k] = " "
                    /\ \A m \in 1..(k - 1) : date_part[m] # " ") - 1)
    ELSE date_part

UNCATEGORIZED == <<"U","N","C","A","T","E","G","O","R","I","Z","E","D">>

\* x or "UNCATEGORIZED" for an optional str
OrUncategorized(x) == IF x = None \/ x = Some(EmptyStr) THEN UNCATEGORIZED ELSE x[1]

\* lines 205-238: None when the joined text has no amount, else the bill_item.
\* at is the index of the item's first line in the document (not a field of
\* the program's item: it names the line the item came from).
MakeItem(item_parts, entity, category, page, at) ==
    LET text == Join(item_parts)
        amount_matches == FindAll(text)
    IN IF amount_matches = <<>> THEN None
       ELSE Some([charge_date   |-> ChargeDate(item_parts[1]),
                  billed_text   |-> BilledText(text, amount_matches),
                  billed_entity |-> OrUncategorized(entity),
                  billed_amount |-> ToFloat(RemoveCommas(amount_matches[1])),
                  bill_page     |-> page + 1,
                  category      |-> OrUncategorized(category),
                  at            |-> at])

\* ------------------------------------------------------------------------
\* One item on its own: a date line and the continuation lines joined to it
\* ------------------------------------------------------------------------
MaxTokens == 3

D_0101 == <<"0","1","-","0","1","-","2","0","2","4">>
Tokens ==
    { <<"1",",","5","0","0",".","0","0">>,
      <<"5","0","0",".","0","0">>,
      <<"5",".","0","0">>,
      <<"T","A","B">>,
      <<"1","1",".","1","1",".","1","1">>,
      <<"x","2">>,
      <<"7",".","5">> }

\* the date line carries the first token, each further token is a line of its own
ItemParts ==
    UNION {{[k \in 1..n |-> IF k = 1 THEN D_0101 \o <<" ">> \o f[k] ELSE f[k]] :
                f \in [1..n -> Tokens]} : n \in 1..MaxTokens}
      \cup {<<D_0101>>}

InitAmount ==
    /\ RateIdle
    /\ audit_df = <<>>
    /\ leakage_analysis = NoReport
    /\ SchemeIdle /\ ParseIdle /\ AmountIdle /\ FlowIdle

\* the item of a date line on the first page, before any category header
AssembleItem ==
    /\ bill_item = NoCall
    /\ \E item_parts \in ItemParts :
          /\ complete_text' = Join(item_parts)
          /\ bill_item' =
                LET made == MakeItem(item_parts, None, None, 0, 1)
                IN IF made = None THEN [status |-> "discarded"]
                   ELSE [status |-> "emitted", item |-> made[1]]
    /\ UNCHANGED <<rate_vars, scheme_call, parse_vars, flow_vars>>

NextAmount == AssembleItem

SpecAmount == InitAmount /\ [][NextAmount]_vars

\* what the matched string says, in thousandths: the amount tokens of the
\* item texts
AmountValue(match) ==
    CASE match = <<"1",",","5","0","0",".","0","0">> -> 1500000
      [] match = <<"5","0","0",".","0","0">> -> 500000
      [] match = <<"5",".","0","0">> -> 5000
      [] match = <<"1","1",".","1","1">> -> 11110

Emitted == bill_item # NoCall /\ bill_item.status = "emitted"

\* C16: an item whose joined text holds exactly one currency-pattern match has
\* that match, thousands separators removed, as billed_amount and the joined
\* text unchanged as billed_text.
C16_SingleAmount ==
    (bill_item # NoCall /\ Len(FindAll(complete_text)) = 1) =>
        /\ bill_item.status = "emitted"
        /\ bill_item.item.billed_amount = AmountValue(FindAll(complete_text)[1])
        /\ bill_item.item.billed_text = complete_text

\* "01-01-2024 TAB 1,500.00" is emitted with amount 1500.00 and its whole text
C16_Witness ==
    /\ Emitted
    /\ complete_text = D_0101 \o <<" ","T","A","B"," ","1",",","5","0","0",".","0","0">>
    /\ bill_item.item.billed_amount = 1500000
    /\ bill_item.item.billed_text = complete_text

\* the item's joined text holds exactly two matches, different strings
TwoAmounts ==
    /\ bill_item # NoCall
    /\ Len(FindAll(complete_text)) = 2
    /\ FindAll(complete_text)[1] # FindAll(complete_text)[2]

\* the text before position k, trimmed
CutBefore(text, k) == Strip(SubSeq(text, 1, k - 1))

C18_TotalNeverSurvives ==
    (bill_item # NoCall /\ Len(FindAll(complete_text)) >= 3) =>
        /\ bill_item.status = "emitted"
        /\ bill_item.item.billed_amount = AmountValue(FindAll(complete_text)[1])
        /\ ~Contains(bill_item.item.billed_text, FindAll(complete_text)[2])

\* ------------------------------------------------------------------------
\* extract_bill_items_from_pdf: the scan of the pages (lines 154-259)
\* ------------------------------------------------------------------------
\* category_mapping, in the order of the dict
category_mapping ==
    << [key |-> <<"B","E","D"," ","C","H","A","R","G","E","S","-","W","A","R","D">>,
        value |-> <<"B","E","D","_","C","H","A","R","G","E","S">>],
       [key |-> <<"D","I","E","T"," ","C","H","A","R","G","E","S">>,
        value |-> <<"D","I","E","T","_","C","H","A","R","G","E","S">>],
       [key |-> <<"D","R","U","G"," ","C","H","A","R","G","E","S">>,
        value |-> <<"D","R","U","G","_","C","H","A","R","G","E","S">>],
       [key |-> <<"N","U","R","S","I","N","G"," ","S","E","R","V","I","C","E","-","W","A","R","D">>,
        value |-> <<"N","U","R","S","I","N","G","_","S","E","R","V","I","C","E">>],
       [key |-> <<"P","R","O","F","E","S","S","I","O","N","A","L"," ","C","H","A","R","G","E","S">>,
        value |-> <<"P","R","O","F","E","S","S","I","O","N","A","L","_","C","H","A","R","G","E","S">>],
       [key |-> <<"T","R","E","A","T","M","E","N","T">>,
        value |-> <<"T","R","E","A","T","M","E","N","T">>],
       [key |-> <<"X"," ","R","A","Y"," ","C","H","A","R","G","E","S">>,
        value |-> <<"X","R","A","Y","_","C","H","A","R","G","E","S">>],
       [key |-> <<"B","E","D"," ","C","H","A","R","G","E","S","-","I","C","U">>,
        value |-> <<"I","C","U","_","C","H","A","R","G","E","S">>],
       [key |-> <<"D","R","E","S","S","I","N","G"," ","C","H","A","R","G","E","S">>,
        value |-> <<"D","R","E","S","S","I","N","G","_","C","H","A","R","G","E","S">>],
       [key |-> <<"H","I","S","T","O","P","A","T","H","O","L","O","G","Y">>,
        value |-> <<"H","I","S","T","O","P","A","T","H","O","L","O","G","Y">>],
       [key |-> <<"N","U","R","S","I","N","G"," ","S","E","R","V","I","C","E","-","I","C","U">>,
        value |-> <<"N","U","R","S","I","N","G","_","S","E","R","V","I","C","E","_","I","C","U">>],
       [key |-> <<"O","P","E","R","A","T","I","O","N"," ","T","H","E","A","T","R","E">>,
        value |-> <<"O","P","E","R","A","T","I","O","N","_","T","H","E","A","T","R","E">>],
       [key |-> <<"O","T"," ","C","O","N","S","U","M","A","B","L","E","S">>,
        value |-> <<"O","T","_","C","O","N","S","U","M","A","B","L","E","S">>],
       [key |-> <<"C","L","I","N","I","C","A","L"," ","P","A","T","H","O","L","O","G","Y">>,
        value |-> <<"C","L","I","N","I","C","A","L","_","P","A","T","H","O","L","O","G","Y">>],
       [key |-> <<"M","I","C","R","O","B","I","O","L","O","G","Y">>,
        value |-> <<"M","I","C","R","O","B","I","O","L","O","G","Y">>],
       [key |-> <<"U","L","T","R","A","S","O","U","N","D">>,
        value |-> <<"U","L","T","R","A","S","O","U","N","D">>] >>

\* str.startswith
StartsWith(s, prefix) ==
    Len(s) >= Len(prefix) /\ \A k \in 1..Len(prefix) : s[k] = prefix[k]

\* line.startswith(category_key) or f") {category_key}" in line
IsHeaderFor(line, category_key) ==
    \/ StartsWith(line, category_key)
    \/ \E k \in 1..(Len(line) - Len(category_key) - 1) :
          /\ line[k] = ")"
          /\ line[k + 1] = " "
          /\ SubSeq(line, k + 2, k + 1 + Len(category_key)) = category_key

\* the first key of category_mapping the line is a header for, 0 when none
HeaderIndex(line) ==
    IF \E n \in 1..Len(category_mapping) : IsHeaderFor(line, category_mapping[n].key)
    THEN CHOOSE n \in 1..Len(category_mapping) :
            /\ IsHeaderFor(line, category_mapping[n].key)
            /\ \A m \in 1..(n - 1) : ~IsHeaderFor(line, category_mapping[m].key)
    ELSE 0

\* mutant: only the first header of the document sets the category
ApplyHeaderOnce(n, category, entity) ==
    IF n = 0 \/ category # None THEN <<category, entity>>
    ELSE <<Some(category_mapping[n].value), Some(category_mapping[n].key)>>

\* lines 168-177: <<current_category, current_entity>> after the header check
\* of a line with HeaderIndex n
ApplyHeader(n, category, entity) ==
    IF n = 0 THEN <<category, entity>>
    ELSE <<Some(category_mapping[n].value), Some(category_mapping[n].key)>>

\* re.match(r'\d{2}-\d{2}-\d{4}', line)
IsItemStart(line) ==
    /\ Len(line) >= 10
    /\ \A k \in {1, 2, 4, 5, 7, 8, 9, 10} : IsDigit(line[k])
    /\ line[3] = "-" /\ line[6] = "-"

\* str(k) for k in range(1, 20)
NumberStr(k) ==
    IF k < 10 THEN <<DigitChars[k + 1]>> ELSE <<"1", DigitChars[k - 9]>>

\* mutant: only 'Concession Details' ends the section
IsSectionEndConcessionOnly(line) == StartsWith(line, <<"C","o","n","c","e","s","s","i","o","n"," ","D","e","t","a","i","l","s">>)

\* line.startswith('Concession Details') or line.startswith('Total Bill Amount')
IsSectionEnd(line) ==
    \/ StartsWith(line, <<"C","o","n","c","e","s","s","i","o","n"," ","D","e","t","a","i","l","s">>)
    \/ StartsWith(line, <<"T","o","t","a","l"," ","B","i","l","l"," ","A","m","o","u","n","t">>)

\* mutant: only the next item-start line stops the look-ahead
StopsLookAheadAtItemOnly(next_line) == IsItemStart(next_line)

\* lines 191-196: the look-ahead stops at this line
StopsLookAhead(next_line) ==
    \/ IsItemStart(next_line)
    \/ StartsWith(next_line, <<"R","u","n"," ","D","a","t","e">>)
    \/ StartsWith(next_line, <<"*", "*", "*">>)
    \/ \E k \in 1..19 : StartsWith(next_line, NumberStr(k) \o <<")">>)
    \/ IsSectionEnd(next_line)

\* `j < i + 5`
LookAheadLimit == 5

\* mutant: a line starting with 'Patient Name' stops the look-ahead
RECURSIVE LookAheadStoppingAtPatientName(_, _, _, _)
LookAheadStoppingAtPatientName(lines, i, j, item_parts) ==
    IF ~(j < Len(lines) /\ j < i + LookAheadLimit) THEN item_parts
    ELSE LET next_line == Strip(lines[j + 1])
         IN IF StopsLookAhead(next_line)
               \/ StartsWith(next_line, <<"P","a","t","i","e","n","t"," ","N","a","m","e">>)
            THEN item_parts
            ELSE LookAheadStoppingAtPatientName(lines, i, j + 1,
                    IF next_line # EmptyStr
                    THEN Append(item_parts, next_line) ELSE item_parts)

\* lines 189-200: i, j count from 0 as in the code, lines[j] is lines[j + 1] here
RECURSIVE LookAhead(_, _, _, _)
LookAhead(lines, i, j, item_parts) ==
    IF ~(j < Len(lines) /\ j < i + LookAheadLimit) THEN item_parts
    ELSE LET next_line == Strip(lines[j + 1])
         IN IF StopsLookAhead(next_line) THEN item_parts
            ELSE LookAhead(lines, i, j + 1,
                    IF next_line # EmptyStr
                       /\ ~StartsWith(next_line, <<"P","a","t","i","e","n","t"," ","N","a","m","e">>)
                    THEN Append(item_parts, next_line) ELSE item_parts)

\* mutant: the buffered items are put in front of the list at the end of a page
PageEndItemsPendingFirst(items, pending) == pending \o items

\* mutant: the items still buffered at the end of a page are dropped
PageEndItemsDropped(items, pending) == items

\* lines 254-255: bill_items.extend(category_items)
PageEndItems(items, pending) == items \o pending

\* text.split('\n') of the pages: the document is drawn as one run of lines
\* with page breaks in it
MaxDocLines == 3

PageBreak == <<"\\f">>
LineKinds ==
    { <<"D","R","U","G"," ","C","H","A","R","G","E","S">>,
      <<"1",")"," ","B","E","D"," ","C","H","A","R","G","E","S","-","W","A","R","D">>,
      <<"0","1","-","0","1","-","2","0","2","4"," ","A"," ","5",".","0","0">>,
      <<"0","2","-","0","1","-","2","0","2","4"," ","P","C","M">>,
      <<" ","T","A","B"," ","2","0",".","0","0">>,
      <<"T","o","t","a","l"," ","B","i","l","l"," ","A","m","o","u","n","t"," ","9",".","0","0">>,
      <<"0","3","-","0","1","-","2","0","2","4"," ","2",")"," ","X"," ","R","A","Y"," ","C","H","A","R","G","E","S"," ","7",".","0","0">> }

\* the pages of a run of lines; a page without text has the one line ''
RECURSIVE SplitPages(_, _)
SplitPages(flat, page) ==
    IF flat = <<>> THEN <<IF page = <<>> THEN <<EmptyStr>> ELSE page>>
    ELSE IF Head(flat) = PageBreak
         THEN <<IF page = <<>> THEN <<EmptyStr>> ELSE page>> \o SplitPages(Tail(flat), <<>>)
         ELSE SplitPages(Tail(flat), Append(page, Head(flat)))

Docs ==
    {SplitPages(flat, <<>>) :
        flat \in UNION {[1..n -> LineKinds \cup {PageBreak}] : n \in 0..MaxDocLines}}

\* lines 154-163: the document is open, the scan of the first page begins
InitParse ==
    /\ RateIdle
    /\ audit_df = <<>>
    /\ leakage_analysis = NoReport
    /\ SchemeIdle /\ AmountIdle /\ FlowIdle
    /\ doc \in Docs
    /\ page_num = 0
    /\ line_i = 0
    /\ current_category = None
    /\ current_entity = None
    /\ category_items = <<>>
    /\ bill_items = <<>>
    /\ pc = "scan"

\* one pass of the while loop (lines 164-251)
ScanLine ==
    /\ pc = "scan"
    /\ line_i < Len(doc[page_num + 1])
    /\ LET lines == doc[page_num + 1]
           line == Strip(lines[line_i + 1])
           n == HeaderIndex(line)
           is_header == n # 0
           header == ApplyHeader(n, current_category, current_entity)
           flushed == IF is_header THEN bill_items \o category_items ELSE bill_items
           pending == IF is_header THEN <<>> ELSE category_items
           item_parts == LookAhead(lines, line_i, line_i + 1, <<line>>)
           made == IF IsItemStart(line)
                   THEN MakeItem(item_parts, header[2], header[1], page_num, line_i + 1)
                   ELSE None
           buffered == IF made = None THEN pending ELSE Append(pending, made[1])
       IN /\ current_category' = header[1]
          /\ current_entity' = header[2]
          /\ complete_text' = IF IsItemStart(line) THEN Join(item_parts)
                              ELSE complete_text
          /\ IF IsSectionEnd(line)
             THEN /\ bill_items' = flushed \o buffered
                  /\ category_items' = <<>>
                  /\ line_i' = line_i
                  /\ pc' = "break"
             ELSE /\ bill_items' = flushed
                  /\ category_items' = buffered
                  /\ line_i' = line_i + 1
                  /\ pc' = "scan"
    /\ UNCHANGED <<doc, page_num, bill_item>>
    /\ UNCHANGED <<rate_vars, scheme_call, flow_vars>>

\* mutant: a SectionEnd line ends the scan of the whole document
EndPageReturningAfterBreak ==
    /\ \/ pc = "break"
       \/ pc = "scan" /\ line_i >= Len(doc[page_num + 1])
    /\ bill_items' = PageEndItems(bill_items, category_items)
    /\ category_items' = <<>>
    /\ IF pc # "break" /\ page_num + 1 < Len(doc)
       THEN page_num' = page_num + 1 /\ line_i' = 0 /\ pc' = "scan"
       ELSE page_num' = page_num /\ line_i' = line_i /\ pc' = "done"
    /\ UNCHANGED <<doc, current_category, current_entity>>
    /\ UNCHANGED <<rate_vars, scheme_call, amount_vars, flow_vars>>

\* the while loop is left (lines 253-256), the next page begins or the list
\* is returned
EndPage ==
    /\ \/ pc = "break"
       \/ pc = "scan" /\ line_i >= Len(doc[page_num + 1])
    /\ bill_items' = PageEndItems(bill_items, category_items)
    /\ category_items' = <<>>
    /\ IF page_num + 1 < Len(doc)
       THEN page_num' = page_num + 1 /\ line_i' = 0 /\ pc' = "scan"
       ELSE page_num' = page_num /\ line_i' = line_i /\ pc' = "done"
    /\ UNCHANGED <<doc, current_category, current_entity>>
    /\ UNCHANGED <<rate_vars, scheme_call, amount_vars, flow_vars>>

NextParse == ScanLine \/ EndPage

SpecParse == InitParse /\ [][NextParse]_vars

\* line l of page p is reached by the scan: no earlier line of the page ends
\* the section
ReachedLine(p, l) == \A m \in 1..(l - 1) : ~IsSectionEnd(Strip(doc[p][m]))

\* position <<p, l>> is not after position <<q, m>>
NotAfter(p, l, q, m) == p < q \/ (p = q /\ l <= m)

\* the header lines seen up to and on line l of page p
HeadersSeen(p, l) ==
    {h \in {<<q, m>> : q \in 1..Len(doc), m \in 1..MaxDocLines} :
        /\ h[2] <= Len(doc[h[1]])
        /\ NotAfter(h[1], h[2], p, l)
        /\ ReachedLine(h[1], h[2])
        /\ HeaderIndex(Strip(doc[h[1]][h[2]])) # 0}

\* every item emitted so far, flushed or still buffered
ItemsSoFar == bill_items \o category_items

\* C19: every emitted item carries the category and entity of the most recent
\* header line seen before or on its item-start line, across page boundaries
\* too, and UNCATEGORIZED for both when no header was seen before it.
C19_CategoryOfLastHeader ==
    \A n \in 1..Len(ItemsSoFar) :
        LET item == ItemsSoFar[n]
            seen == HeadersSeen(item.bill_page, item.at)
        IN IF seen = {}
           THEN /\ item.category = UNCATEGORIZED
                /\ item.billed_entity = UNCATEGORIZED
           ELSE LET last == CHOOSE h \in seen :
                               \A g \in seen : NotAfter(g[1], g[2], h[1], h[2])
                    key == category_mapping[HeaderIndex(Strip(doc[last[1]][last[2]]))]
                IN /\ item.category = key.value
                   /\ item.billed_entity = key.key

\* an item before any header is UNCATEGORIZED; the item after the header
\* DRUG CHARGES has category DRUG_CHARGES
C19_Witness ==
    /\ pc = "done"
    /\ Len(doc) = 1 /\ Len(doc[1]) = 3
    /\ doc[1][2] = <<"D","R","U","G"," ","C","H","A","R","G","E","S">>
    /\ Len(bill_items) = 2
    /\ bill_items[1].at = 1
    /\ bill_items[1].category = UNCATEGORIZED
    /\ bill_items[1].billed_entity = UNCATEGORIZED
    /\ bill_items[2].at = 3
    /\ bill_items[2].category = <<"D","R","U","G","_","C","H","A","R","G","E","S">>
    /\ bill_items[2].billed_entity = <<"D","R","U","G"," ","C","H","A","R","G","E","S">>

\* line l of page p has been passed by the scan
Scanned(p, l) ==
    \/ p < page_num + 1
    \/ p = page_num + 1 /\ (l <= line_i \/ pc \in {"break", "done"})

\* line l of page p is an item-start line whose joined text has an amount
HasAmount(p, l) ==
    LET line == Strip(doc[p][l])
    IN /\ IsItemStart(line)
       /\ FindAll(Join(LookAhead(doc[p], l - 1, l, <<line>>))) # <<>>

\* the item-start lines with an amount the scan has reached and passed
ItemLinesPassed ==
    {h \in {<<p, l>> : p \in 1..Len(doc), l \in 1..MaxDocLines} :
        /\ h[2] <= Len(doc[h[1]])
        /\ Scanned(h[1], h[2])
        /\ ReachedLine(h[1], h[2])
        /\ HasAmount(h[1], h[2])}

\* C20: at every moment the items emitted so far are exactly one per reached
\* item-start line with an amount, none lost or duplicated by a flush and none
\* for a candidate without amount; the buffer is empty at every page boundary,
\* and when the document is done every such item is in the output list.
C20_ExactlyOneItemPerLine ==
    /\ Len(ItemsSoFar) = Cardinality(ItemLinesPassed)
    /\ {<<ItemsSoFar[n].bill_page, ItemsSoFar[n].at>> : n \in 1..Len(ItemsSoFar)}
          = ItemLinesPassed
    /\ (pc = "scan" /\ line_i = 0) => category_items = <<>>
    /\ pc = "done" => category_items = <<>>

\* page 1 ends mid-category with one buffered item and no terminator line:
\* the item is in the output
C20_Witness ==
    /\ pc = "done"
    /\ doc = <<
         <<<<"D","R","U","G"," ","C","H","A","R","G","E","S">>,
           <<"0","1","-","0","1","-","2","0","2","4"," ","A"," ","5",".","0","0">>>>,
         <<EmptyStr>> >>
    /\ Len(bill_items) = 1
    /\ bill_items[1].bill_page = 1
    /\ bill_items[1].billed_amount = 5000
    /\ category_items = <<>>

\* the item-start line of item a comes before the one of item b
StartsBefore(a, b) ==
    a.bill_page < b.bill_page \/ (a.bill_page = b.bill_page /\ a.at < b.at)

\* C21: the items of the list are in ascending (page, position of the
\* item-start line within the page) order, at every moment of the scan and in
\* the list returned.
C21_AscendingOrder ==
    \A m, n \in 1..Len(bill_items) :
        m < n => StartsBefore(bill_items[m], bill_items[n])

\* two items of one page, the first flushed by a header and the second by the
\* end of the page, and the list is returned
C21_Witness ==
    /\ pc = "done"
    /\ Len(doc) = 1
    /\ Len(bill_items) = 2
    /\ bill_items[1].at = 1
    /\ bill_items[2].at = 3
    /\ HeaderIndex(Strip(doc[1][2])) # 0

\* ------------------------------------------------------------------------
\* extract_concession_details (lines 261-307)
\* ------------------------------------------------------------------------
\* concession_patterns, in the order of the dict.  Each pattern is its literal
\* labels, then `\s*:\s*` (lazy = FALSE) or `.*?:\s*` (lazy = TRUE, also between
\* two labels), then the amount group.
concession_patterns ==
    << [key |-> "total_bill_amount", lazy |-> FALSE,
        labels |-> <<<<"T","o","t","a","l"," ","B","i","l","l"," ","A","m","o","u","n","t">>>>],
       [key |-> "less_concession", lazy |-> FALSE,
        labels |-> <<<<"L","e","s","s"," ","C","o","n","c","e","s","s","i","o","n">>>>],
       [key |-> "net_amount", lazy |-> FALSE,
        labels |-> <<<<"N","e","t"," ","A","m","o","u","n","t">>>>],
       [key |-> "advance_adjusted", lazy |-> FALSE,
        labels |-> <<<<"A","d","v","a","n","c","e"," ","A","d","j","u","s","t","e","d">>>>],
       [key |-> "account_to_insurance", lazy |-> TRUE,
        labels |-> <<<<"A","/","C"," ","t","o"," ","V","I","D","A","L">>>>],
       [key |-> "as_per_mou_concession", lazy |-> TRUE,
        labels |-> <<<<"A","S"," ","P","E","R"," ","M","O","U">>, <<"C","O","N","C","E","S","S","I","O","N">>>>],
       [key |-> "as_per_package_concession", lazy |-> TRUE,
        labels |-> <<<<"A","S"," ","P","E","R"," ","P","A","C","K","A","G","E">>, <<"C","O","N","C","E","S","S","I","O","N">>>>] >>

\* \s
IsSpace(c) == c = " " \/ c = "\n"

\* the first position from p on that holds no white space
SkipSpace(text, p) ==
    CHOOSE q \in p..(Len(text) + 1) :
        /\ \A k \in p..(q - 1) : IsSpace(text[k])
        /\ q = Len(text) + 1 \/ ~IsSpace(text[q])

\* the label is at position p of the text, letters compared ignoring case
LabelAt(text, p, label) ==
    /\ p + Len(label) - 1 <= Len(text)
    /\ \A k \in 1..Len(label) : UpperChar(text[p + k - 1]) = UpperChar(label[k])

\* `:\s*([\d,]+\.\d{2})` at position c: the matched amount string, or None
ColonAmountAt(text, c) ==
    IF c > Len(text) \/ text[c] # ":" THEN None
    ELSE LET a == SkipSpace(text, c + 1)
         IN IF a > Len(text) \/ MatchEnd(text, a) = 0 THEN None
            ELSE Some(SubSeq(text, a, MatchEnd(text, a)))

\* the position after the first occurrences of the labels, one after the
\* other, from p on; 0 when a label is missing
RECURSIVE AfterLabels(_, _, _)
AfterLabels(text, p, labels) ==
    IF labels = <<>> THEN p
    ELSE LET at == {q \in p..Len(text) : LabelAt(text, q, Head(labels))}
         IN IF at = {} THEN 0
            ELSE AfterLabels(text,
                    (CHOOSE q \in at : \A r \in at : q <= r) + Len(Head(labels)),
                    Tail(labels))

\* re.search(pattern, text, re.IGNORECASE | re.DOTALL): group(1) of the
\* leftmost match, or None
SearchPattern(text, pattern) ==
    IF pattern.lazy
    THEN LET from == AfterLabels(text, 1, pattern.labels)
             at == IF from = 0 THEN {}
                   ELSE {c \in from..Len(text) : ColonAmountAt(text, c) # None}
         IN IF at = {} THEN None
            ELSE ColonAmountAt(text, CHOOSE c \in at : \A r \in at : c <= r)
    ELSE LET label == pattern.labels[1]
             at == {q \in 1..Len(text) :
                      /\ LabelAt(text, q, label)
                      /\ ColonAmountAt(text, SkipSpace(text, q + Len(label))) # None}
         IN IF at = {} THEN None
            ELSE ColonAmountAt(text,
                    SkipSpace(text, (CHOOSE q \in at : \A r \in at : q <= r) + Len(label)))

\* lines 284-291 on one page: the patterns that match set their key
RECURSIVE SetMatches(_, _, _)
SetMatches(text, patterns, concession_data) ==
    IF patterns = <<>> THEN concession_data
    ELSE LET match == SearchPattern(text, Head(patterns))
         IN SetMatches(text, Tail(patterns),
                IF match = None THEN concession_data
                ELSE Put(concession_data, Head(patterns).key,
                         ToFloat(RemoveCommas(match[1]))))

\* advance_pattern `(\d{2}-\d{2}-\d{4})\s+(IRA\d+)\s+([\d,]+\.\d{2})` at
\* position p: the entry and the position after the match, or None
AdvanceAt(text, p) ==
    IF ~IsItemStart(SubSeq(text, p, Len(text))) THEN None
    ELSE LET r == SkipSpace(text, p + 10)
         IN IF r = p + 10 \/ ~StartsWith(SubSeq(text, r, Len(text)), <<"I", "R", "A">>)
            THEN None
            ELSE LET d == CHOOSE q \in (r + 3)..(Len(text) + 1) :
                            /\ \A k \in (r + 3)..(q - 1) : IsDigit(text[k])
                            /\ q = Len(text) + 1 \/ ~IsDigit(text[q])
                     a == SkipSpace(text, d)
                 IN IF d = r + 3 \/ a = d \/ a > Len(text) \/ MatchEnd(text, a) = 0
                    THEN None
                    ELSE Some([date      |-> SubSeq(text, p, p + 9),
                               reference |-> SubSeq(text, r, d - 1),
                               amount    |-> ToFloat(RemoveCommas(
                                                SubSeq(text, a, MatchEnd(text, a)))),
                               end       |-> MatchEnd(text, a)])

\* re.findall(advance_pattern, text) from position p on
RECURSIVE FindAdvancesFrom(_, _)
FindAdvancesFrom(text, p) ==
    IF p > Len(text) THEN <<>>
    ELSE LET m == AdvanceAt(text, p)
         IN IF m = None THEN FindAdvancesFrom(text, p + 1)
            ELSE <<[date |-> m[1].date, reference |-> m[1].reference,
                    amount |-> m[1].amount]>> \o FindAdvancesFrom(text, m[1].end + 1)

MaxPages == 3

\* page.get_text() of the pages of a bill
PageTexts ==
    { <<"T","o","t","a","l"," ","B","i","l","l"," ","A","m","o","u","n","t"," ",":"," ","1","0","0",".","0","0">>,
      <<"t","o","t","a","l"," ","b","i","l","l"," ","a","m","o","u","n","t",":"," ","2","0","0",".","0","0","\n","N","e","t"," ","A","m","o","u","n","t"," ",":"," ","5","0",".","0","0">>,
      <<"N","e","t"," ","A","m","o","u","n","t"," ",":","\n","6","0",".","0","0"," ","T","o","t","a","l"," ","B","i","l","l"," ","A","m","o","u","n","t"," ",":"," ","3","0","0",".","0","0">>,
      <<"L","e","s","s"," ","C","o","n","c","e","s","s","i","o","n"," ","5",".","0","0"," ","A","d","v","a","n","c","e"," ","A","d","j","u","s","t","e","d"," ",":"," ","7">>,
      <<"A","S"," ","P","E","R"," ","M","O","U"," ","-"," ","C","O","N","C","E","S","S","I","O","N"," ","(","x",")",":"," ","7",".","0","0">>,
      <<"0","1","-","0","1","-","2","0","2","4"," ","I","R","A","1","2"," ","1",",","0","0","0",".","0","0"," ","N","e","t"," ","A","m","o","u","n","t"," ",":"," ","9",".","0","0">>,
      <<>> }

\* the document is open, nothing extracted yet (lines 265-278)
InitConcession ==
    /\ RateIdle
    /\ audit_df = <<>>
    /\ leakage_analysis = NoReport
    /\ SchemeIdle /\ ParseIdle /\ AmountIdle
    /\ ai = NoCall /\ run = NoCall
    /\ \E pages \in UNION {[1..n -> PageTexts] : n \in 1..MaxPages} :
          conc = [status |-> "running", pages |-> pages, page_num |-> 0,
                  concession_data |-> <<>>, advance_details |-> <<>>]

\* one pass of the page loop (lines 280-302)
ConcessionPage(c) ==
    LET text == c.pages[c.page_num + 1]
    IN [c EXCEPT !.page_num = @ + 1,
                 !.concession_data = SetMatches(text, concession_patterns, @),
                 !.advance_details = @ \o FindAdvancesFrom(text, 1)]

ExtractConcessionPage ==
    /\ conc.status = "running"
    /\ conc.page_num < Len(conc.pages)
    /\ conc' = ConcessionPage(conc)
    /\ UNCHANGED <<rate_vars, scheme_call, parse_vars, amount_vars, ai, run>>

\* lines 304-306: concession_data['advance_details'] = advance_details; return
ReturnConcession ==
    /\ conc.status = "running"
    /\ conc.page_num = Len(conc.pages)
    /\ conc' = [conc EXCEPT !.status = "returned",
                            !.concession_data =
                                Put(@, "advance_details", conc.advance_details)]
    /\ UNCHANGED <<rate_vars, scheme_call, parse_vars, amount_vars, ai, run>>

NextConcession == ExtractConcessionPage \/ ReturnConcession

SpecConcession == InitConcession /\ [][NextConcession]_vars

\* the pages on which the pattern matches
PagesMatching(pattern) ==
    {n \in 1..Len(conc.pages) : SearchPattern(conc.pages[n], pattern) # None}

\* C22: first match wins for every summary field of extract_concession_details:
\* the value returned for a field is the one matched on the first page where
\* its pattern matches, and a field matched on no page is absent.
C22_FirstMatchWins ==
    conc.status = "returned" =>
        \A i \in 1..Len(concession_patterns) :
            LET pattern == concession_patterns[i]
                on == PagesMatching(pattern)
            IN IF on = {} THEN pattern.key \notin DOMAIN conc.concession_data
               ELSE LET first == CHOOSE n \in on : \A m \in on : n <= m
                    IN /\ pattern.key \in DOMAIN conc.concession_data
                       /\ conc.concession_data[pattern.key] =
                            ToFloat(RemoveCommas(
                                SearchPattern(conc.pages[first], pattern)[1]))

\* C23: a line gets one classification, header before item start: a line that
\* is a category header is never also processed as an item start, so no
\* emitted item has a header line as its item-start line.
C23_HeaderLineYieldsNoItem ==
    \A n \in 1..Len(ItemsSoFar) :
        HeaderIndex(Strip(doc[ItemsSoFar[n].bill_page][ItemsSoFar[n].at])) = 0

\* the line starts with one of the two SectionEnd labels
IsTerminator(line) ==
    \E label \in {<<"C","o","n","c","e","s","s","i","o","n"," ","D","e","t","a","i","l","s">>,
                  <<"T","o","t","a","l"," ","B","i","l","l"," ","A","m","o","u","n","t">>} :
        Len(line) >= Len(label) /\ SubSeq(line, 1, Len(label)) = label

\* a SectionEnd line comes before line l on page p
AfterTerminator(p, l) == \E m \in 1..(l - 1) : IsTerminator(Strip(doc[p][m]))

\* the header lines passed by the scan that no SectionEnd line precedes on
\* their page
HeadersInForce ==
    {h \in {<<p, l>> : p \in 1..Len(doc), l \in 1..MaxDocLines} :
        /\ h[2] <= Len(doc[h[1]])
        /\ Scanned(h[1], h[2])
        /\ ~AfterTerminator(h[1], h[2])
        /\ HeaderIndex(Strip(doc[h[1]][h[2]])) # 0}

\* C24: a SectionEnd line flushes the pending items and ends the scan of its
\* page: no emitted item starts after the first SectionEnd line of its page,
\* and the current category is the one of the last header no SectionEnd line
\* precedes on its page.
C24_SectionEndStopsPage ==
    /\ \A n \in 1..Len(ItemsSoFar) :
          ~AfterTerminator(ItemsSoFar[n].bill_page, ItemsSoFar[n].at)
    /\ pc = "break" => category_items = <<>>
    /\ IF HeadersInForce = {} THEN current_category = None
       ELSE LET last == CHOOSE h \in HeadersInForce :
                           \A g \in HeadersInForce : NotAfter(g[1], g[2], h[1], h[2])
            IN current_category =
                  Some(category_mapping[HeaderIndex(Strip(doc[last[1]][last[2]]))].value)

\* an item, then 'Total Bill Amount', then a line that is header and item: the
\* list holds the first item only and no category was set
C24_Witness ==
    /\ pc = "done"
    /\ Len(doc) = 1 /\ Len(doc[1]) = 3
    /\ IsTerminator(doc[1][2])
    /\ IsItemStart(doc[1][3]) /\ HeaderIndex(doc[1][3]) # 0
    /\ Len(bill_items) = 1
    /\ bill_items[1].at = 1
    /\ current_category = None

\* item n of the items emitted so far starts at line l of page p
EmittedAt(p, l) ==
    \E n \in 1..Len(ItemsSoFar) :
        ItemsSoFar[n].bill_page = p /\ ItemsSoFar[n].at = l

\* C25: a page never stops the later pages: the list is returned only after
\* the last page, and on every page, whatever came on the pages before it,
\* each item-start line with an amount that the scan has passed and that no
\* SectionEnd line of its own page precedes has its item emitted.
C25_LaterPagesScanned ==
    /\ pc = "done" => page_num + 1 = Len(doc)
    /\ pc = "scan" => line_i <= Len(doc[page_num + 1])
    /\ \A p \in 1..Len(doc) : \A l \in 1..Len(doc[p]) :
          (Scanned(p, l) /\ ~AfterTerminator(p, l) /\ HasAmount(p, l))
              => EmittedAt(p, l)

\* page 1 is a SectionEnd line; the item of page 2 is in the returned list
C25_Witness ==
    /\ pc = "done"
    /\ Len(doc) = 2
    /\ IsTerminator(doc[1][1])
    /\ IsItemStart(doc[2][1])
    /\ Len(bill_items) = 1
    /\ bill_items[1].bill_page = 2
    /\ bill_items[1].at = 1

\* ------------------------------------------------------------------------
\* The look-ahead on its own: an item-start line and the lines after it
\* ------------------------------------------------------------------------
MaxFollowing == 5

\* the lines that can interrupt the plain continuation lines of an item
SpecialLines ==
    { EmptyStr,
      <<"P","a","t","i","e","n","t"," ","N","a","m","e"," ","X">>,
      <<"0","2","-","0","1","-","2","0","2","4"," ","B"," ","2",".","0","0">>,
      <<"T","o","t","a","l"," ","B","i","l","l"," ","A","m","o","u","n","t"," ","9",".","0","0">>,
      <<"3",")"," ","D","R","U","G"," ","C","H","A","R","G","E","S">>,
      <<"*","*","*"," ","e","n","d">>,
      <<"R","u","n"," ","D","a","t","e"," ","1">> }

\* the plain continuation line at position k after the item-start line
PlainLine(k) == <<"w", DigitChars[k + 1]>>

\* page 1 is an item-start line followed by up to MaxFollowing lines, plain
\* but for at most two of them; page 2 is one more line with an amount
LookDocs ==
    UNION {{<< <<<<"0","1","-","0","1","-","2","0","2","4"," ","A"," ","5",".","0","0">>>>
                 \o [k \in 1..n |-> IF f[k] = <<"w">> THEN PlainLine(k) ELSE f[k]],
               <<<<"q"," ","3",".","0","0">>>> >> :
             f \in {g \in [1..n -> SpecialLines \cup {<<"w">>}] :
                        Cardinality({k \in 1..n : g[k] # <<"w">>}) <= 2}} :
           n \in 0..MaxFollowing}

InitLook ==
    /\ RateIdle
    /\ audit_df = <<>>
    /\ leakage_analysis = NoReport
    /\ SchemeIdle /\ AmountIdle /\ FlowIdle
    /\ doc \in LookDocs
    /\ page_num = 0
    /\ line_i = 0
    /\ current_category = None
    /\ current_entity = None
    /\ category_items = <<>>
    /\ bill_items = <<>>
    /\ pc = "scan"

SpecLook == InitLook /\ [][NextParse]_vars

\* the item-start lines the scan has reached and passed
ItemStartsPassed ==
    {h \in {<<p, l>> : p \in 1..Len(doc), l \in 1..(MaxFollowing + 1)} :
        /\ h[2] <= Len(doc[h[1]])
        /\ Scanned(h[1], h[2])
        /\ ReachedLine(h[1], h[2])
        /\ IsItemStart(Strip(doc[h[1]][h[2]]))}

\* the last of them: the line complete_text was joined for
LastItemStart ==
    CHOOSE h \in ItemStartsPassed :
        \A g \in ItemStartsPassed : NotAfter(g[1], g[2], h[1], h[2])

\* the at most 4 lines after line l on page p, stripped
Window(p, l) ==
    [k \in 1..(IF Len(doc[p]) - l < 4 THEN Len(doc[p]) - l ELSE 4) |->
        Strip(doc[p][l + k])]

\* the lines of w at the indices in S, in order
RECURSIVE Pick(_, _, _)
Pick(w, k, S) ==
    IF k > Len(w) THEN <<>>
    ELSE (IF k \in S THEN <<w[k]>> ELSE <<>>) \o Pick(w, k + 1, S)

\* the next item-start line, a SectionEnd line or a numbered marker 'N)'
IsBoundaryLine(line) ==
    \/ IsItemStart(line)
    \/ IsTerminator(line)
    \/ \E k \in 1..19 : StartsWith(line, NumberStr(k) \o <<")">>)

\* a boundary line, or a line starting with 'Run Date' or '***'
IsStopLine(line) ==
    \/ IsBoundaryLine(line)
    \/ StartsWith(line, <<"R","u","n"," ","D","a","t","e">>)
    \/ StartsWith(line, <<"*", "*", "*">>)

IsPatientName(line) == StartsWith(line, <<"P","a","t","i","e","n","t"," ","N","a","m","e">>)

C27_PatientNameStops ==
    ItemStartsPassed # {} =>
        LET p == LastItemStart[1]
            l == LastItemStart[2]
            w == Window(p, l)
            S == {k \in 1..Len(w) :
                    /\ w[k] # EmptyStr
                    /\ \A m \in 1..k : ~IsStopLine(w[m]) /\ ~IsPatientName(w[m])}
        IN complete_text = Join(<<Strip(doc[p][l])>> \o Pick(w, 1, S))

\* C27 amended: a line starting with 'Patient Name' is left out of the joined
\* text but does not stop the absorption: the non-empty lines after it in the
\* window, up to the first stop line, are still joined.
C27_PatientNameSkipped ==
    ItemStartsPassed # {} =>
        LET p == LastItemStart[1]
            l == LastItemStart[2]
            w == Window(p, l)
            S == {k \in 1..Len(w) :
                    /\ w[k] # EmptyStr
                    /\ ~IsPatientName(w[k])
                    /\ \A m \in 1..k : ~IsStopLine(w[m])}
        IN complete_text = Join(<<Strip(doc[p][l])>> \o Pick(w, 1, S))

\* 'Patient Name X' right after the item-start line, then a plain line: the
\* plain line is joined, the patient-name line is not
C27_Witness ==
    /\ line_i = 1 /\ page_num = 0
    /\ Len(doc[1]) = 3
    /\ IsPatientName(doc[1][2])
    /\ doc[1][3] = PlainLine(2)
    /\ complete_text = doc[1][1] \o <<" ">> \o PlainLine(2)

\* ------------------------------------------------------------------------
\* process_chunk_with_marvel_ai (lines 335-458): the retry loop
\* ------------------------------------------------------------------------
\* max_retries: the default of process_chunk_with_marvel_ai, the value its
\* caller passes and the local of extract_bill_info_with_ai
max_retries == 3

\* What one request can come back with: code 0 stands for requests.post
\* raising; body "bad" for a 200 response whose JSON body lacks the candidate
\* text (resp.json() or the indexing raises); parsed is the value of
\* extract_json_from_text(text): None or Some(dict).
Reply(code, body, parsed) == [code |-> code, body |-> body, parsed |-> parsed]

ChunkReplies ==
    { Reply(0, "none", None),
      Reply(429, "none", None),
      Reply(500, "none", None),
      Reply(200, "bad", None),
      Reply(200, "text", None),
      Reply(200, "text", Some(<<>>)),
      Reply(200, "text", Some([note |-> <<"n">>])),
      Reply(200, "text", Some([audits |-> <<>>])),
      Reply(200, "text", Some([audits |-> <<"a1", "a2">>])) }

\* the function was called: no request sent yet
Called(fn) == [status |-> "running", fn |-> fn, attempt |-> 0, replies |-> <<>>]

\* `if attempt < max_retries - 1: continue  else: raise`
RetryOrRaise(a, replies, error) ==
    IF a.attempt < max_retries - 1
    THEN [a EXCEPT !.attempt = @ + 1, !.replies = replies]
    ELSE [status |-> "raised", fn |-> a.fn, attempt |-> a.attempt,
          replies |-> replies, error |-> error]

\* mutant: after the last attempt an empty list is returned
ChunkAttemptReturningEmpty(a, reply) ==
    LET replies == Append(a.replies, reply)
        failed == IF a.attempt < max_retries - 1
                  THEN [a EXCEPT !.attempt = @ + 1, !.replies = replies]
                  ELSE [status |-> "returned", fn |-> a.fn, attempt |-> a.attempt,
                        replies |-> replies, value |-> <<>>]
    IN IF /\ reply.code = 200 /\ reply.body = "text"
          /\ reply.parsed # None /\ reply.parsed # Some(<<>>)
          /\ "audits" \in DOMAIN reply.parsed[1]
       THEN [status |-> "returned", fn |-> a.fn, attempt |-> a.attempt,
             replies |-> replies, value |-> reply.parsed[1].audits]
       ELSE failed

\* one pass of `for attempt in range(max_retries)` (lines 339-455) and, after
\* the last pass, the raise at line 457
ChunkAttempt(a, reply) ==
    LET replies == Append(a.replies, reply)
    IN CASE reply.code = 0 -> RetryOrRaise(a, replies, "request")
         [] reply.code = 429 ->
              IF a.attempt < max_retries - 1
              THEN [a EXCEPT !.attempt = @ + 1, !.replies = replies]
              ELSE [status |-> "raised", fn |-> a.fn, attempt |-> a.attempt,
                    replies |-> replies, error |-> "Failed after max_retries attempts"]
         [] reply.code \notin {0, 429, 200} ->
              RetryOrRaise(a, replies, "API request failed")
         [] reply.code = 200 /\ reply.body = "bad" ->
              RetryOrRaise(a, replies, "response body")
         [] OTHER ->
              \* `if parsed and "audits" in parsed`
              IF /\ reply.parsed # None
                 /\ reply.parsed # Some(<<>>)
                 /\ "audits" \in DOMAIN reply.parsed[1]
              THEN [status |-> "returned", fn |-> a.fn, attempt |-> a.attempt,
                    replies |-> replies, value |-> reply.parsed[1].audits]
              ELSE RetryOrRaise(a, replies, "Failed to parse audit results")

InitChunk ==
    /\ RateIdle
    /\ audit_df = <<>>
    /\ leakage_analysis = NoReport
    /\ SchemeIdle /\ ParseIdle /\ AmountIdle
    /\ conc = NoCall /\ run = NoCall
    /\ ai = Called("process_chunk_with_marvel_ai")

\* a request is sent and answered
SendChunkRequest ==
    /\ ai.status = "running"
    /\ ai.fn = "process_chunk_with_marvel_ai"
    /\ \E reply \in ChunkReplies : ai' = ChunkAttempt(ai, reply)
    /\ UNCHANGED <<rate_vars, scheme_call, parse_vars, amount_vars, conc, run>>

NextChunk == SendChunkRequest

SpecChunk == InitChunk /\ [][NextChunk]_vars

\* the reply is 200 and parses to an object containing 'audits'
HasAudits(reply) ==
    /\ reply.code = 200
    /\ reply.body = "text"
    /\ \E audits \in {<<>>, <<"a1", "a2">>} : reply.parsed = Some([audits |-> audits])

\* C28: process_chunk_with_marvel_ai sends at most max_retries requests; it
\* returns exactly the audits of the first reply that is 200 and parses to an
\* object with 'audits' and sends nothing after it; in every other case it
\* ends by raising once max_retries requests are answered, also when the last
\* answer is 429, and never returns a list on failure.
C28_ReturnFirstAuditsOrRaise ==
    ai.status # "none" =>
        LET n == Len(ai.replies)
        IN /\ n <= max_retries
           /\ \A k \in 1..(n - 1) : ~HasAudits(ai.replies[k])
           /\ ai.status = "returned" <=> (n > 0 /\ HasAudits(ai.replies[n]))
           /\ ai.status = "returned" => ai.value = ai.replies[n].parsed[1].audits
           /\ ai.status = "raised" <=> (n = max_retries /\ ~HasAudits(ai.replies[n]))
           /\ ai.status = "running" <=> (n < max_retries /\ (n > 0 => ~HasAudits(ai.replies[n])))

\* three requests, each answered 429: the call ends by raising
C28_Witness ==
    /\ ai.status = "raised"
    /\ ai.fn = "process_chunk_with_marvel_ai"
    /\ Len(ai.replies) = 3
    /\ \A k \in 1..3 : ai.replies[k].code = 429

\* ------------------------------------------------------------------------
\* extract_bill_info_with_ai (lines 559-732): the retry loop
\* ------------------------------------------------------------------------
\* a JSON value with its Python type: isinstance(v, list) is v.type = "list"
JList(items) == [type |-> "list", items |-> items]

JOther(type) == [type |-> type, items |-> <<>>]

BillInfoReplies ==
    { Reply(0, "none", None),
      Reply(429, "none", None),
      Reply(500, "none", None),
      Reply(200, "bad", None),
      Reply(200, "text", None),
      Reply(200, "text", Some(<<>>)),
      Reply(200, "text", Some([header_info |-> <<"h0">>])),
      Reply(200, "text", Some([line_items |-> JList(<<"i0">>)])),
      Reply(200, "text", Some([header_info |-> <<"h1">>,
                                line_items |-> JList(<<"i1", "i2">>)])),
      Reply(200, "text", Some([header_info |-> <<"h2">>,
                                line_items |-> JList(<<>>),
                                concession_details |-> <<"c2">>])),
      Reply(200, "text", Some([header_info |-> <<"h3">>,
                                line_items |-> JOther("str")])),
      Reply(200, "text", Some([header_info |-> <<"h4">>,
                                line_items |-> JOther("null"),
                                concession_details |-> <<"c4">>])) }

\* the value of the return statement at lines 727-731
EmptyStructure ==
    [header_info |-> <<>>, line_items |-> JList(<<>>), concession_details |-> <<>>]

\* every branch that does not return: `continue`, or the end of the loop body,
\* and after the last pass the return at lines 727-731
RetryOrReturnEmpty(a, replies) ==
    IF a.attempt < max_retries - 1
    THEN [a EXCEPT !.attempt = @ + 1, !.replies = replies]
    ELSE [status |-> "returned", fn |-> a.fn, attempt |-> a.attempt,
          replies |-> replies, value |-> EmptyStructure]

\* mutant: the parsed object is returned as it came
BillInfoAttemptAsParsed(a, reply) ==
    LET replies == Append(a.replies, reply)
    IN IF /\ reply.code = 200 /\ reply.body = "text"
          /\ reply.parsed # None /\ reply.parsed # Some(<<>>)
          /\ {"header_info", "line_items"} \subseteq DOMAIN reply.parsed[1]
       THEN [status |-> "returned", fn |-> a.fn, attempt |-> a.attempt,
             replies |-> replies, value |-> reply.parsed[1]]
       ELSE RetryOrReturnEmpty(a, replies)

\* one pass of `for attempt in range(max_retries)` (lines 663-724) and, after
\* the last pass, the return at lines 727-731
BillInfoAttempt(a, reply) ==
    LET replies == Append(a.replies, reply)
    IN CASE reply.code = 0 -> RetryOrReturnEmpty(a, replies)
         [] reply.code = 429 -> RetryOrReturnEmpty(a, replies)
         [] reply.code \notin {0, 429, 200} -> RetryOrReturnEmpty(a, replies)
         [] reply.code = 200 /\ reply.body = "bad" -> RetryOrReturnEmpty(a, replies)
         [] OTHER ->
              IF reply.parsed # None /\ reply.parsed # Some(<<>>)
              THEN LET parsed == reply.parsed[1]
                   IN IF /\ "header_info" \in DOMAIN parsed
                         /\ "line_items" \in DOMAIN parsed
                      THEN [status |-> "returned", fn |-> a.fn,
                            attempt |-> a.attempt, replies |-> replies,
                            value |-> IF parsed.line_items.type = "list"
                                      THEN parsed
                                      ELSE [parsed EXCEPT !.line_items = JList(<<>>)]]
                      ELSE RetryOrReturnEmpty(a, replies)
              ELSE RetryOrReturnEmpty(a, replies)

InitBillInfo ==
    /\ RateIdle
    /\ audit_df = <<>>
    /\ leakage_analysis = NoReport
    /\ SchemeIdle /\ ParseIdle /\ AmountIdle
    /\ conc = NoCall /\ run = NoCall
    /\ ai = Called("extract_bill_info_with_ai")

\* a request is sent and answered
SendBillInfoRequest ==
    /\ ai.status = "running"
    /\ ai.fn = "extract_bill_info_with_ai"
    /\ \E reply \in BillInfoReplies : ai' = BillInfoAttempt(ai, reply)
    /\ UNCHANGED <<rate_vars, scheme_call, parse_vars, amount_vars, conc, run>>

NextBillInfo == SendBillInfoRequest

SpecBillInfo == InitBillInfo /\ [][NextBillInfo]_vars

\* the reply is 200 and parses to an object with 'header_info' and 'line_items'
HasBothKeys(reply) ==
    /\ reply.code = 200
    /\ reply.body = "text"
    /\ reply.parsed # None
    /\ "header_info" \in DOMAIN reply.parsed[1]
    /\ "line_items" \in DOMAIN reply.parsed[1]

\* C29: extract_bill_info_with_ai never raises; it sends at most 3 requests;
\* it returns the first parsed reply holding both 'header_info' and
\* 'line_items' (its other keys unchanged, line_items replaced by [] when it
\* is not a list) and sends nothing after it; otherwise, after the third
\* reply, it returns the empty structure; line_items of the returned value is
\* always a list.
C29_NeverRaisesListLineItems ==
    ai.status # "none" =>
        LET n == Len(ai.replies)
        IN /\ n <= 3
           /\ ai.status # "raised"
           /\ \A k \in 1..(n - 1) : ~HasBothKeys(ai.replies[k])
           /\ ai.status = "returned" <=> (n > 0 /\ (n = 3 \/ HasBothKeys(ai.replies[n])))
           /\ ai.status = "returned" =>
                 /\ ai.value.line_items.type = "list"
                 /\ IF HasBothKeys(ai.replies[n])
                    THEN LET parsed == ai.replies[n].parsed[1]
                         IN /\ DOMAIN ai.value = DOMAIN parsed
                            /\ \A key \in DOMAIN parsed :
                                  key # "line_items" => ai.value[key] = parsed[key]
                            /\ parsed.line_items.type = "list" =>
                                  ai.value.line_items = parsed.line_items
                            /\ parsed.line_items.type # "list" =>
                                  ai.value.line_items.items = <<>>
                    ELSE /\ DOMAIN ai.value =
                               {"header_info", "line_items", "concession_details"}
                         /\ ai.value.header_info = <<>>
                         /\ ai.value.line_items.items = <<>>
                         /\ ai.value.concession_details = <<>>

\* a 429, then a reply whose line_items is a string: returned with an empty list
C29_Witness ==
    /\ ai.status = "returned"
    /\ ai.fn = "extract_bill_info_with_ai"
    /\ Len(ai.replies) = 2
    /\ ai.replies[1].code = 429
    /\ HasBothKeys(ai.replies[2])
    /\ ai.replies[2].parsed[1].line_items.type = "str"
    /\ ai.value.line_items = [type |-> "list", items |-> <<>>]
    /\ ai.value.header_info = <<"h3">>

\* three replies without both keys: the empty structure is returned
C29_WitnessEmpty ==
    /\ ai.status = "returned"
    /\ ai.fn = "extract_bill_info_with_ai"
    /\ Len(ai.replies) = 3
    /\ ai.replies[1].code = 500
    /\ ai.replies[2].code = 0
    /\ ai.replies[3].parsed = <<[header_info |-> <<"h0">>]>>
    /\ ai.value.line_items.items = <<>>

\* ------------------------------------------------------------------------
\* run_document_analysis_audit (lines 460-553): grouping and chunking
\* ------------------------------------------------------------------------
\* chunk_size = 10 (line 518)
chunk_size == 10

MaxRunItems == 11

MaxOtherItems == 2

\* categorized_items (lines 489-494): a dict in insertion order, here the
\* sequence of [category, items] in the order the categories first appear
categorized_items(all_bill_items) ==
    LET CategoryOf(item) == Get(item, "category", "OTHER_CHARGES")
        n == Len(all_bill_items)
        FirstAt(c) == CHOOSE k \in 1..n :
                         /\ CategoryOf(all_bill_items[k]) = c
                         /\ \A j \in 1..(k - 1) : CategoryOf(all_bill_items[j]) # c
        categories == { CategoryOf(all_bill_items[k]) : k \in 1..n }
    IN [ m \in 1..Cardinality(categories) |->
           LET c == CHOOSE d \in categories :
                       Cardinality({ e \in categories : FirstAt(e) < FirstAt(d) }) = m - 1
               InCategory(item) == CategoryOf(item) = c
           IN [category |-> c, items |-> SelectSeq(all_bill_items, InCategory)] ]

\* category_chunks (line 519): items[i:i + chunk_size] for i in range(0, len(items), chunk_size)
category_chunks(items) ==
    [ k \in 1..((Len(items) + chunk_size - 1) \div chunk_size) |->
        SubSeq(items, (k - 1) * chunk_size + 1,
               IF k * chunk_size < Len(items) THEN k * chunk_size ELSE Len(items)) ]

\* the bills the audit is run on: a + b items of DRUG_CHARGES and
\* LAB_CHARGES, the one category after the other, or lab items at the even
\* places among the first 2 * b
RunItemLists ==
    { [ k \in 1..(a + b) |->
          [id |-> k,
           category |->
             CASE order = "drug first" -> IF k <= a THEN "DRUG_CHARGES" ELSE "LAB_CHARGES"
               [] order = "lab first" -> IF k <= b THEN "LAB_CHARGES" ELSE "DRUG_CHARGES"
               [] OTHER -> IF k <= 2 * b /\ k % 2 = 0 THEN "LAB_CHARGES"
                           ELSE "DRUG_CHARGES"] ] :
        a \in 0..MaxRunItems, b \in 0..MaxOtherItems,
        order \in {"drug first", "lab first", "alternating"} }

\* the audits the service returns for a chunk: one per item, or none
ChunkResults(chunk_items) ==
    { [raised |-> TRUE, audits |-> <<>>],
      [raised |-> FALSE, audits |-> <<>>],
      [raised |-> FALSE, audits |-> [k \in 1..Len(chunk_items) |-> chunk_items[k].id]] }

InitRun ==
    /\ RateIdle
    /\ audit_df = <<>>
    /\ leakage_analysis = NoReport
    /\ SchemeIdle /\ ParseIdle /\ AmountIdle
    /\ conc = NoCall /\ ai = NoCall
    /\ \E items \in RunItemLists :
          run = [status |-> "called", all_bill_items |-> items]

\* lines 479-500: the early return for an empty bill, otherwise the grouping
StartAudit ==
    /\ run.status = "called"
    /\ run' = IF run.all_bill_items = <<>>
              THEN [status |-> "returned", all_bill_items |-> run.all_bill_items,
                    sent |-> <<>>,
                    value |-> [audits |-> <<>>, items |-> <<>>]]
              ELSE [status |-> "processing", all_bill_items |-> run.all_bill_items,
                    categorized_items |-> categorized_items(run.all_bill_items),
                    category_num |-> 1, chunk_idx |-> 0,
                    all_audits |-> <<>>, sent |-> <<>>]
    /\ UNCHANGED <<rate_vars, scheme_call, parse_vars, amount_vars, conc, ai>>

\* the step to the next chunk of the category, or to the next category
NextChunkOf(r, chunks) ==
    IF r.chunk_idx + 1 < Len(chunks)
    THEN [r EXCEPT !.chunk_idx = @ + 1]
    ELSE [r EXCEPT !.chunk_idx = 0, !.category_num = @ + 1]

\* mutant: a chunk that fails ends the processing of its category
AfterChunkLeavingCategory(r, chunks, result) ==
    LET chunk_items == chunks[r.chunk_idx + 1]
        logged == [r EXCEPT !.sent = Append(@, [chunk_items |-> chunk_items,
                                               result |-> result])]
    IN IF result.raised
       THEN [logged EXCEPT !.chunk_idx = 0, !.category_num = @ + 1]
       ELSE NextChunkOf([logged EXCEPT !.all_audits = @ \o result.audits], chunks)

\* lines 522-536: the try around process_chunk_with_marvel_ai; `sent` records
\* the chunk handed to it and what it came back with
AfterChunk(r, chunks, result) ==
    LET chunk_items == chunks[r.chunk_idx + 1]
        logged == [r EXCEPT !.sent = Append(@, [chunk_items |-> chunk_items,
                                               result |-> result])]
    IN IF result.raised
       THEN NextChunkOf(logged, chunks)
       ELSE NextChunkOf([logged EXCEPT !.all_audits = @ \o result.audits], chunks)

\* one pass of `for chunk_idx, chunk_items in enumerate(category_chunks)`
ProcessChunk ==
    /\ run.status = "processing"
    /\ run.category_num <= Len(run.categorized_items)
    /\ LET chunks == category_chunks(run.categorized_items[run.category_num].items)
       IN \E result \in ChunkResults(chunks[run.chunk_idx + 1]) :
             run' = AfterChunk(run, chunks, result)
    /\ UNCHANGED <<rate_vars, scheme_call, parse_vars, amount_vars, conc, ai>>

\* lines 538-545: all categories are done
FinishAudit ==
    /\ run.status = "processing"
    /\ run.category_num > Len(run.categorized_items)
    /\ run' = [status |-> "returned", all_bill_items |-> run.all_bill_items,
               sent |-> run.sent,
               value |-> [audits |-> run.all_audits, items |-> run.all_bill_items]]
    /\ UNCHANGED <<rate_vars, scheme_call, parse_vars, amount_vars, conc, ai>>

NextRun == StartAudit \/ ProcessChunk \/ FinishAudit

SpecRun == InitRun /\ [][NextRun]_vars

\* how many of the chunks sent so far hold the item
TimesSent(item) ==
    Cardinality({ <<c, k>> \in (1..Len(run.sent)) \X (1..Len(run.all_bill_items)) :
                    /\ k <= Len(run.sent[c].chunk_items)
                    /\ run.sent[c].chunk_items[k] = item })

\* the audits of the chunks c..Len(run.sent) that came back, in the order sent
RECURSIVE AuditsFrom(_)
AuditsFrom(c) ==
    IF c > Len(run.sent) THEN <<>>
    ELSE (IF run.sent[c].result.raised THEN <<>> ELSE run.sent[c].result.audits)
         \o AuditsFrom(c + 1)

\* C30: every chunk sent holds between 1 and 10 items of one category; no
\* item is sent twice, and when the audit returns every extracted item has
\* been sent exactly once; the audits collected are those of the chunks that
\* succeeded, in the order the chunks were processed, whatever chunks failed
\* before or after them.
C30_ChunksAndFailures ==
    run.status \in {"processing", "returned"} =>
        /\ \A c \in 1..Len(run.sent) :
              LET chunk_items == run.sent[c].chunk_items
              IN /\ Len(chunk_items) \in 1..10
                 /\ \A k \in 1..Len(chunk_items) :
                       chunk_items[k].category = chunk_items[1].category
        /\ \A k \in 1..Len(run.all_bill_items) : TimesSent(run.all_bill_items[k]) <= 1
        /\ run.status = "processing" => run.all_audits = AuditsFrom(1)
        /\ run.status = "returned" =>
              /\ \A k \in 1..Len(run.all_bill_items) :
                    TimesSent(run.all_bill_items[k]) = 1
              /\ run.value.audits = AuditsFrom(1)

\* eleven drug items and one lab item: three chunks, the second fails, the
\* audits of the first and the third are returned
C30_Witness ==
    /\ run.status = "returned"
    /\ Len(run.sent) = 3
    /\ Len(run.sent[1].chunk_items) = 10
    /\ ~run.sent[1].result.raised
    /\ run.sent[2].result.raised
    /\ ~run.sent[3].result.raised
    /\ run.value.audits = <<1, 2, 3, 4, 5, 6, 7, 8, 9, 10, 12>>

====
